---- MODULE Spec2Model ----
(***************************************************************************)
(* A model of ezmpc, the online phase of SPDZ: the alpha-synchronizer      *)
(* (synchronizer.rs), the party runtime (party.rs), the register VM        *)
(* (vm.rs), the share algebra and the commitment scheme (crypto.rs) and    *)
(* the broadcast/receive message layer (message.rs), wired together the    *)
(* way the integration harness (integration_test.rs) wires them.           *)
(*                                                                         *)
(* Every thread of the program is a process of the model; every crossbeam  *)
(* channel is a FIFO sequence.  A step of the model is what one thread     *)
(* does between two channel operations that can block.                     *)
(***************************************************************************)
EXTENDS Integers, Sequences, FiniteSets, TLC

VARIABLES
    n,            \* number of parties of the run
    prog,         \* the program, the same at every party
    sync,         \* the synchronizer thread
    to_party,     \* to_party[i]: SyncMsg channel synchronizer -> party i
    to_sync,      \* to_sync[i]: SyncReplyMsg channel party i -> synchronizer
    party,        \* party[i]: the thread of Party::listen
    vm,           \* vm[i]: the thread of VM::listen
    party_chans,  \* party_chans[i][j]: PartyMsg channel party i -> party j
    preproc_chan, \* preproc_chan[i]: PreprocMsg inlet of party i
    triple_chan,  \* triple_chan[i]: forwarding queue party i -> VM i
    rand_chan,    \* rand_chan[i]: forwarding queue party i -> VM i
    inst_chan,    \* inst_chan[i]: Instruction channel party i -> VM i
    action_chan,  \* action_chan[i]: Action channel VM i -> party i
    reply_chan,   \* reply_chan[i]: the bounded(1) reply channel of the current Action
    hist          \* history: what was sent and gathered so far (no thread reads it)

vars == <<n, prog, sync, to_party, to_sync, party, vm, party_chans, preproc_chan,
          triple_chan, rand_chan, inst_chan, action_chan, reply_chan, hist>>

-----------------------------------------------------------------------------
(* Bounds of the model *)

\* the modulus of the field: the arithmetic of Fp is arithmetic modulo P
P == 3
\* number of parties in the runs of Spec and SpecSync
N == 2
\* number of replies the environment of SpecSync sends on one reply channel
MaxReplies == 3
\* number of seeds the seeded random generator of the harness is tried with
NumSeeds == 2

(* Constants of the program *)

\* capacity of the channels the harness creates
TEST_CAP == 5
\* capacity of the instruction and action channels
DEFAULT_CAP == 5

Parties == 0..(n - 1)

-----------------------------------------------------------------------------
(* Option<T>: None is the empty sequence, Some(x) the sequence <<x>> *)

None == <<>>
Some(x) == <<x>>
IsSome(o) == o # <<>>
Unwrap(o) == o[1]

(* Fp: the field elements and their arithmetic *)

Fp == 0..(P - 1)
FpAdd(a, b) == (a + b) % P
FpSub(a, b) == (a + P - b) % P
FpMul(a, b) == (a * b) % P

RECURSIVE SumSeq(_)
\* iter().sum::<Fp>() and unauth_combine: the sum of a vector of field elements
SumSeq(s) == IF s = <<>> THEN 0 ELSE FpAdd(Head(s), SumSeq(Tail(s)))

unauth_combine(shares) == SumSeq(shares)

(* The result of a thread, as its JoinHandle returns it *)

\* a thread that has not returned has the result Running
Running == [state |-> "running", err |-> "", out |-> <<>>]
RetOk(out) == [state |-> "ok", err |-> "", out |-> out]
RetErr(e) == [state |-> "err", err |-> e, out |-> <<>>]
Panicked(msg) == [state |-> "panic", err |-> msg, out |-> <<>>]

-----------------------------------------------------------------------------
(* crypto.rs: AuthShare and the commitment scheme *)

AuthShare(share, mac) == [share |-> share, mac |-> mac]

\* AuthShare::mul_clear
mul_clear(a, rhs) == [share |-> FpMul(a.share, rhs), mac |-> FpMul(a.mac, rhs)]

\* AuthShare::add_clear
add_clear(a, rhs, alpha_share, update_share) ==
    [share |-> IF update_share THEN FpAdd(a.share, rhs) ELSE a.share,
     mac   |-> FpAdd(a.mac, FpMul(alpha_share, rhs))]

\* impl_op_ex!(+ ...) and impl_op_ex!(- ...) on AuthShare
AuthAdd(a, b) == [share |-> FpAdd(a.share, b.share), mac |-> FpAdd(a.mac, b.mac)]
AuthSub(a, b) == [share |-> FpSub(a.share, b.share), mac |-> FpSub(a.mac, b.mac)]

\* Sha3_256 over r and the serialized value: a hash without collisions, so
\* the digest of (r, v) is the pair itself
Hash(r, v) == <<r, v>>

\* commit::Scheme::commit with the 32 random bytes r drawn from the rng
commit(secret, r) == [com |-> [c |-> Hash(r, secret)], opening |-> [v |-> secret, r |-> r]]

\* commit::Scheme::verify
verify(opening, com) == com.c = Hash(opening.r, opening.v)

-----------------------------------------------------------------------------
(* vm.rs: Instruction, Action, Reg *)

\* number of registers of each bank
REG_SIZE == 11

RegAddr == 0..(REG_SIZE - 1)

Ins(op, r0, r1, r2, id) == [op |-> op, r0 |-> r0, r1 |-> r1, r2 |-> r2, id |-> id]
CAdd(r0, r1, r2) == Ins("CAdd", r0, r1, r2, 0)
CSub(r0, r1, r2) == Ins("CSub", r0, r1, r2, 0)
CMul(r0, r1, r2) == Ins("CMul", r0, r1, r2, 0)
SAdd(r0, r1, r2) == Ins("SAdd", r0, r1, r2, 0)
SSub(r0, r1, r2) == Ins("SSub", r0, r1, r2, 0)
MAdd(r0, r1, r2, id) == Ins("MAdd", r0, r1, r2, id)
MMul(r0, r1, r2) == Ins("MMul", r0, r1, r2, 0)
Input(r0, r1, id) == Ins("Input", r0, r1, 0, id)
Triple(r0, r1, r2) == Ins("Triple", r0, r1, r2, 0)
Open(to, from) == Ins("Open", to, from, 0, 0)
COutput(reg) == Ins("COutput", reg, 0, 0, 0)
SOutput(reg) == Ins("SOutput", reg, 0, 0, 0)
Stop == Ins("Stop", 0, 0, 0, 0)

\* Action::Next, Open(Fp, _), Input(PartyID, Option<Fp>, _), Check(Vec<(Fp, AuthShare)>, _)
Action(kind, x, id, e, openings) ==
    [kind |-> kind, x |-> x, id |-> id, e |-> e, openings |-> openings]
ActNext == Action("Next", 0, 0, None, <<>>)
ActOpen(x) == Action("Open", x, 0, None, <<>>)
ActInput(id, e) == Action("Input", 0, id, e, <<>>)
ActCheck(openings) == Action("Check", 0, 0, None, openings)

\* what travels on the reply channel of an Action: a field element for Open
\* and Input, the MAC check result ("Ok" or the MACCheckError) for Check
ReplyFp(x) == [v |-> x, res |-> ""]
ReplyCheck(r) == [v |-> 0, res |-> r]

\* Reg::empty
RegEmpty == [clear |-> [k \in RegAddr |-> None], secret |-> [k \in RegAddr |-> None]]

\* Reg::from_vec
from_vec(vclear, vsecret) ==
    [clear  |-> [k \in RegAddr |-> IF k < Len(vclear) THEN Some(vclear[k + 1]) ELSE None],
     secret |-> [k \in RegAddr |-> IF k < Len(vsecret) THEN Some(vsecret[k + 1]) ELSE None]]

\* VM::new, then VM::listen waiting for its first instruction
VMInit(id, alpha_share, reg) ==
    [vpc |-> "idle", id |-> id, alpha_share |-> alpha_share, reg |-> reg,
     rand_msgs |-> [j \in Parties |-> <<>>], partial_openings |-> <<>>, output |-> <<>>,
     hold |-> <<>>, res |-> Running]

\* the VM thread returns: `?` on an error, or Ok(output) at Stop
VMReturn(v, res) == [v EXCEPT !.vpc = "done", !.hold = <<>>, !.res = res]

\* the outcome of running one instruction up to the next channel operation:
\* the VM and the Action it sends, if any
Outcome(v, act) == [v |-> v, act |-> act]
\* opt_to_res(None)?: the VM returns MPCError::EmptyError
EmptyError(v) == Outcome(VMReturn(v, RetErr("EmptyError")), None)
\* the instruction is complete: the VM emits Action::Next
Completed(v) == Outcome(v, Some(ActNext))

\* a VM that reads an empty clear register as zero
do_clear_op_EmptyIsZero(v, r0, r1, r2, op) ==
    LET a == IF IsSome(v.reg.clear[r1]) THEN Unwrap(v.reg.clear[r1]) ELSE 0
        b == IF IsSome(v.reg.clear[r2]) THEN Unwrap(v.reg.clear[r2]) ELSE 0
    IN Completed([v EXCEPT !.reg.clear[r0] = Some(op[a, b])])

\* VM::do_clear_op
do_clear_op(v, r0, r1, r2, op) ==
    LET c == IF IsSome(v.reg.clear[r1]) /\ IsSome(v.reg.clear[r2])
             THEN Some(op[Unwrap(v.reg.clear[r1]), Unwrap(v.reg.clear[r2])])
             ELSE None
    IN IF IsSome(c) THEN Completed([v EXCEPT !.reg.clear[r0] = c]) ELSE EmptyError(v)

\* a VM that adds the secret registers whatever the instruction is
do_secret_op_AlwaysAdd(v, r0, r1, r2, op) ==
    LET c == IF IsSome(v.reg.secret[r1]) /\ IsSome(v.reg.secret[r2])
             THEN Some(AuthAdd(Unwrap(v.reg.secret[r1]), Unwrap(v.reg.secret[r2])))
             ELSE None
    IN IF IsSome(c) THEN Completed([v EXCEPT !.reg.secret[r0] = c]) ELSE EmptyError(v)

\* VM::do_secret_op
do_secret_op(v, r0, r1, r2, op) ==
    LET c == IF IsSome(v.reg.secret[r1]) /\ IsSome(v.reg.secret[r2])
             THEN Some(op[Unwrap(v.reg.secret[r1]), Unwrap(v.reg.secret[r2])])
             ELSE None
    IN IF IsSome(c) THEN Completed([v EXCEPT !.reg.secret[r0] = c]) ELSE EmptyError(v)

\* VM::do_mixed_add
do_mixed_add(v, s_r0, s_r1, c_r2, id) ==
    LET c == IF IsSome(v.reg.secret[s_r1]) /\ IsSome(v.reg.clear[c_r2])
             THEN Some(add_clear(Unwrap(v.reg.secret[s_r1]), Unwrap(v.reg.clear[c_r2]),
                                 v.alpha_share, v.id = id))
             ELSE None
    IN IF IsSome(c) THEN Completed([v EXCEPT !.reg.secret[s_r0] = c]) ELSE EmptyError(v)

\* a VM that multiplies the share by the clear value and keeps the MAC
do_mixed_mul_KeepsMac(v, s_r0, s_r1, c_r2) ==
    LET c == IF IsSome(v.reg.secret[s_r1]) /\ IsSome(v.reg.clear[c_r2])
             THEN Some([mul_clear(Unwrap(v.reg.secret[s_r1]), Unwrap(v.reg.clear[c_r2]))
                            EXCEPT !.mac = Unwrap(v.reg.secret[s_r1]).mac])
             ELSE None
    IN IF IsSome(c) THEN Completed([v EXCEPT !.reg.secret[s_r0] = c]) ELSE EmptyError(v)

\* VM::do_mixed_mul
do_mixed_mul(v, s_r0, s_r1, c_r2) ==
    LET c == IF IsSome(v.reg.secret[s_r1]) /\ IsSome(v.reg.clear[c_r2])
             THEN Some(mul_clear(Unwrap(v.reg.secret[s_r1]), Unwrap(v.reg.clear[c_r2])))
             ELSE None
    IN IF IsSome(c) THEN Completed([v EXCEPT !.reg.secret[s_r0] = c]) ELSE EmptyError(v)

RECURSIVE Drain(_, _)
\* the select loop of get_rand_share_for_id: every RandShareMsg waiting on
\* rand_chan is pushed onto the vector of its party_id
Drain(rand_msgs, chan) ==
    IF chan = <<>> THEN rand_msgs
    ELSE Drain([rand_msgs EXCEPT ![Head(chan).party_id] = Append(@, Head(chan))], Tail(chan))

\* Vec::pop: the vector without its last element
Front(s) == SubSeq(s, 1, Len(s) - 1)

\* VM::do_input up to the Action it sends; get_rand_share_for_id pops the
\* last message of the vector of id
do_input(v, r0, r1, id, chan) ==
    LET msgs == Drain(v.rand_msgs, chan)
        v1 == [v EXCEPT !.rand_msgs = msgs]
    IN IF msgs[id] = <<>> THEN EmptyError(v1)
       ELSE LET rand_share == msgs[id][Len(msgs[id])]
                v2 == [v1 EXCEPT !.rand_msgs[id] = Front(@)]
                waiting == [v2 EXCEPT !.vpc = "input", !.hold = [r0 |-> r0, id |-> id, share |-> rand_share.share]]
            IN IF v.id = id
               THEN IF IsSome(v.reg.clear[r1]) /\ IsSome(rand_share.clear)
                    THEN Outcome(waiting, Some(ActInput(id,
                            Some(FpSub(Unwrap(v.reg.clear[r1]), Unwrap(rand_share.clear))))))
                    ELSE EmptyError(v2)
               ELSE Outcome(waiting, Some(ActInput(id, None)))

\* a VM that stores the rand-share as the share of the input
do_input_reply_NoMask(v, e) ==
    Completed([v EXCEPT !.reg.secret[v.hold.r0] = Some(v.hold.share),
                        !.vpc = "idle", !.hold = <<>>])

\* a VM at which every party adds e to its share
do_input_reply_AllUpdate(v, e) ==
    Completed([v EXCEPT !.reg.secret[v.hold.r0] =
                            Some(add_clear(v.hold.share, e, v.alpha_share, TRUE)),
                        !.vpc = "idle", !.hold = <<>>])

\* VM::do_input once the party has replied e
do_input_reply(v, e) ==
    Completed([v EXCEPT !.reg.secret[v.hold.r0] =
                            Some(add_clear(v.hold.share, e, v.alpha_share, v.id = v.hold.id)),
                        !.vpc = "idle", !.hold = <<>>])

\* a VM that stores the shares of a and b in each other's register
do_triple_SwapsAB(v, triple) ==
    Completed([v EXCEPT !.reg.secret[v.hold.r0] = Some(triple.b),
                        !.reg.secret[v.hold.r1] = Some(triple.a),
                        !.reg.secret[v.hold.r2] = Some(triple.c),
                        !.vpc = "idle", !.hold = <<>>])

\* VM::do_triple once recv_timeout has returned the triple
do_triple(v, triple) ==
    Completed([v EXCEPT !.reg.secret[v.hold.r0] = Some(triple.a),
                        !.reg.secret[v.hold.r1] = Some(triple.b),
                        !.reg.secret[v.hold.r2] = Some(triple.c),
                        !.vpc = "idle", !.hold = <<>>])

\* VM::do_open up to the Action it sends
do_open(v, to, from) ==
    IF v.reg.secret[from] = None THEN EmptyError(v)
    ELSE LET for_opening == Unwrap(v.reg.secret[from]) IN
         Outcome([v EXCEPT !.vpc = "open", !.hold = [r0 |-> to, id |-> 0, share |-> for_opening]],
                 Some(ActOpen(for_opening.share)))

\* a VM that stores its own share in the clear register, not the opened value
do_open_reply_StoresShare(v, opened) ==
    Completed([v EXCEPT !.reg.clear[v.hold.r0] = Some(v.hold.share.share),
                        !.partial_openings = Append(@, <<opened, v.hold.share>>),
                        !.vpc = "idle", !.hold = <<>>])

\* a VM whose Open stores the opened value in every clear register
do_open_reply_WritesAllClear(v, opened) ==
    Completed([v EXCEPT !.reg.clear = [r \in DOMAIN @ |-> Some(opened)],
                        !.partial_openings = Append(@, <<opened, v.hold.share>>),
                        !.vpc = "idle", !.hold = <<>>])

\* VM::do_open once the party has replied the opened value
do_open_reply(v, opened) ==
    Completed([v EXCEPT !.reg.clear[v.hold.r0] = Some(opened),
                        !.partial_openings = Append(@, <<opened, v.hold.share>>),
                        !.vpc = "idle", !.hold = <<>>])

\* VM::do_mac_check up to the Action it sends
do_mac_check(v, waiting) ==
    Outcome([v EXCEPT !.vpc = waiting], Some(ActCheck(v.partial_openings)))

\* VM::do_secret_output up to the first Action it sends
do_secret_output(v, reg) ==
    IF v.reg.secret[reg] = None THEN EmptyError(v)
    ELSE LET x == Unwrap(v.reg.secret[reg]) IN
         Outcome([v EXCEPT !.vpc = "sout_open", !.hold = [r0 |-> reg, id |-> 0, share |-> x]],
                 Some(ActOpen(x.share)))

\* a VM whose SOutput asks for the check of its own opening only
do_secret_output_opened_OwnOnly(v, opened) ==
    Outcome([v EXCEPT !.partial_openings = Append(@, <<opened, v.hold.share>>),
                      !.vpc = "sout_check"],
            Some(ActCheck(<<<<opened, v.hold.share>>>>)))

\* VM::do_secret_output once the party has replied the opened value: the
\* opening is logged and the MAC check requested
do_secret_output_opened(v, opened) ==
    do_mac_check([v EXCEPT !.partial_openings = Append(@, <<opened, v.hold.share>>)],
                 "sout_check")

\* a VM whose do_secret_output returns the opened value
SOutputValue_Opened(v) == v.partial_openings[Len(v.partial_openings)][1]

\* the value VM::do_secret_output returns after a successful check
SOutputValue(v) == v.hold.share.share

\* VM::do_mac_check once the party has replied, then the rest of the
\* instruction that asked for it (SOutput: push the output; Stop: return)
do_mac_check_reply(v, result) ==
    IF result # "Ok" THEN Outcome(VMReturn(v, RetErr(result)), None)
    ELSE LET v1 == [v EXCEPT !.partial_openings = <<>>] IN
         IF v.vpc = "sout_check"
         THEN Completed([v1 EXCEPT !.output = Append(@, SOutputValue(v)),
                                   !.vpc = "idle", !.hold = <<>>])
         ELSE Completed(VMReturn(v1, RetOk(v1.output)))

\* a VM that stops without checking the openings of its log
do_stop_NoCheck(v) == Completed(VMReturn(v, RetOk(v.output)))

\* the Stop arm of VM::listen: the openings not yet checked are checked, then
\* Action::Next is sent and Ok(output) returned
do_stop(v) ==
    IF v.partial_openings # <<>> THEN do_mac_check(v, "stop_check")
    ELSE Completed(VMReturn(v, RetOk(v.output)))

\* the match of VM::listen on the instruction received
Exec(v, inst, chan) ==
    CASE inst.op = "CAdd" -> do_clear_op(v, inst.r0, inst.r1, inst.r2, [a \in Fp, b \in Fp |-> FpAdd(a, b)])
      [] inst.op = "CSub" -> do_clear_op(v, inst.r0, inst.r1, inst.r2, [a \in Fp, b \in Fp |-> FpSub(a, b)])
      [] inst.op = "CMul" -> do_clear_op(v, inst.r0, inst.r1, inst.r2, [a \in Fp, b \in Fp |-> FpMul(a, b)])
      [] inst.op = "SAdd" -> do_secret_op(v, inst.r0, inst.r1, inst.r2,
                                  [a \in [share : Fp, mac : Fp], b \in [share : Fp, mac : Fp] |-> AuthAdd(a, b)])
      [] inst.op = "SSub" -> do_secret_op(v, inst.r0, inst.r1, inst.r2,
                                  [a \in [share : Fp, mac : Fp], b \in [share : Fp, mac : Fp] |-> AuthSub(a, b)])
      [] inst.op = "MAdd" -> do_mixed_add(v, inst.r0, inst.r1, inst.r2, inst.id)
      [] inst.op = "MMul" -> do_mixed_mul(v, inst.r0, inst.r1, inst.r2)
      [] inst.op = "Input" -> do_input(v, inst.r0, inst.r1, inst.id, chan)
      [] inst.op = "Triple" ->
            Outcome([v EXCEPT !.vpc = "triple",
                              !.hold = [r0 |-> inst.r0, r1 |-> inst.r1, r2 |-> inst.r2]], None)
      [] inst.op = "Open" -> do_open(v, inst.r0, inst.r1)
      [] inst.op = "COutput" ->
            IF IsSome(v.reg.clear[inst.r0])
            THEN Completed([v EXCEPT !.output = Append(@, Unwrap(v.reg.clear[inst.r0]))])
            ELSE EmptyError(v)
      [] inst.op = "SOutput" -> do_secret_output(v, inst.r0)
      [] inst.op = "Stop" -> do_stop(v)

-----------------------------------------------------------------------------
(* message.rs: SyncMsg, SyncReplyMsg *)

SyncMsg == {"Start", "Next", "Abort"}
SyncReplyMsg == {"Ok", "Done", "Abort"}

\* Vec::contains
Contains(s, x) == \E k \in 1..Len(s) : s[k] = x
\* iter().all(|x| *x == v)
AllEq(s, v) == \A k \in 1..Len(s) : s[k] = v

-----------------------------------------------------------------------------
(* synchronizer.rs *)

\* Synchronizer::spawn: the thread starts by broadcasting Start
SyncInit == [spc |-> "bcast", m |-> "Start", idx |-> 0, msgs |-> <<>>, res |-> Running]

\* a synchronizer that does not gather the replies before the next Next
AfterBroadcast_NoGather(m) ==
    CASE m = "Start" -> [spc |-> "bcast", m |-> "Next", idx |-> 0, msgs |-> <<>>, res |-> Running]
      [] m = "Next"  -> [spc |-> "bcast", m |-> "Next", idx |-> 0, msgs |-> <<>>, res |-> Running]
      [] m = "Abort" -> [spc |-> "done", m |-> "", idx |-> 0, msgs |-> <<>>, res |-> RetOk(<<>>)]

\* what follows the broadcast of m (spawn line 24-26, listen line 39-49)
AfterBroadcast(m) ==
    CASE m = "Start" -> [spc |-> "bcast", m |-> "Next", idx |-> 0, msgs |-> <<>>, res |-> Running]
      [] m = "Next"  -> [spc |-> "gather", m |-> "", idx |-> 0, msgs |-> <<>>, res |-> Running]
      [] m = "Abort" -> [spc |-> "done", m |-> "", idx |-> 0, msgs |-> <<>>, res |-> RetOk(<<>>)]

\* the thread of party j has returned and dropped its receivers
Gone(j) == party[j].ppc = "done"

\* message::broadcast, one send of its loop: c.send(m.clone())? blocks while
\* the channel is full and fails once the receiver is dropped
SyncBroadcast ==
    /\ sync.spc = "bcast"
    /\ sync.idx < n
    /\ IF Gone(sync.idx)
       THEN /\ sync' = [spc |-> "done", m |-> "", idx |-> 0, msgs |-> <<>>,
                        res |-> RetErr("Send")]
            /\ UNCHANGED <<to_party, hist>>
       ELSE /\ Len(to_party[sync.idx]) < TEST_CAP
            /\ to_party' = [to_party EXCEPT ![sync.idx] = Append(@, sync.m)]
            /\ hist' = [hist EXCEPT !.sent[sync.idx] = Append(@, sync.m)]
            /\ sync' = IF sync.idx + 1 = n THEN AfterBroadcast(sync.m)
                                           ELSE [sync EXCEPT !.idx = @ + 1]
    /\ UNCHANGED <<n, prog, to_sync, party, vm, party_chans, preproc_chan, triple_chan,
                   rand_chan, inst_chan, action_chan, reply_chan>>

\* message::receive, one recv_timeout of its loop, when a reply is there
SyncGather ==
    /\ sync.spc = "gather"
    /\ sync.idx < n
    /\ to_sync[sync.idx] # <<>>
    /\ to_sync' = [to_sync EXCEPT ![sync.idx] = Tail(@)]
    /\ sync' = [sync EXCEPT !.msgs = Append(@, Head(to_sync[sync.idx])),
                            !.idx = @ + 1,
                            !.spc = IF sync.idx + 1 = n THEN "decide" ELSE "gather"]
    /\ UNCHANGED <<n, prog, to_party, party, vm, party_chans, preproc_chan, triple_chan,
                   rand_chan, inst_chan, action_chan, reply_chan, hist>>

\* message::receive, recv_timeout(TIMEOUT) on an empty channel: the gather
\* fails and `?` makes the thread return the error
SyncTimeout ==
    /\ sync.spc = "gather"
    /\ sync.idx < n
    /\ to_sync[sync.idx] = <<>>
    /\ sync' = [spc |-> "done", m |-> "", idx |-> 0, msgs |-> <<>>, res |-> RetErr("RecvTimeout")]
    /\ UNCHANGED <<n, prog, to_party, to_sync, party, vm, party_chans, preproc_chan,
                   triple_chan, rand_chan, inst_chan, action_chan, reply_chan, hist>>

\* a synchronizer that goes on when a reply is Abort
Decision_AbortAsNext(msgs) ==
    IF AllEq(msgs, "Done") THEN "halt"
    ELSE IF Contains(msgs, "Abort") THEN "next"
    ELSE IF AllEq(msgs, "Ok") THEN "next"
    ELSE "panic"

\* a synchronizer that broadcasts Abort when every reply is Done
Decision_DoneAsAbort(msgs) ==
    IF AllEq(msgs, "Done") THEN "abort"
    ELSE IF Contains(msgs, "Abort") THEN "abort"
    ELSE IF AllEq(msgs, "Ok") THEN "next"
    ELSE "panic"

\* a synchronizer that goes on when some reply is Ok, whatever the others are
Decision_AnyOkAsNext(msgs) ==
    IF AllEq(msgs, "Done") THEN "halt"
    ELSE IF Contains(msgs, "Ok") THEN "next"
    ELSE IF Contains(msgs, "Abort") THEN "abort"
    ELSE "panic"

\* the if-chain of Synchronizer::listen on the gathered replies
Decision(msgs) ==
    IF AllEq(msgs, "Done") THEN "halt"
    ELSE IF Contains(msgs, "Abort") THEN "abort"
    ELSE IF AllEq(msgs, "Ok") THEN "next"
    ELSE "panic"

SyncDecide ==
    /\ sync.spc = "decide"
    /\ LET d == Decision(sync.msgs) IN
        /\ sync' = CASE d = "halt"  -> [spc |-> "done", m |-> "", idx |-> 0, msgs |-> <<>>,
                                        res |-> RetOk(<<>>)]
                     [] d = "abort" -> [spc |-> "bcast", m |-> "Abort", idx |-> 0, msgs |-> <<>>,
                                        res |-> Running]
                     [] d = "next"  -> [spc |-> "bcast", m |-> "Next", idx |-> 0, msgs |-> <<>>,
                                        res |-> Running]
                     [] OTHER       -> [spc |-> "done", m |-> "", idx |-> 0, msgs |-> <<>>,
                                        res |-> Panicked("unexpected messages")]
        /\ hist' = [hist EXCEPT !.gathers = Append(@, [msgs |-> sync.msgs, sent |-> hist.sent])]
    /\ UNCHANGED <<n, prog, to_party, to_sync, party, vm, party_chans, preproc_chan,
                   triple_chan, rand_chan, inst_chan, action_chan, reply_chan>>

-----------------------------------------------------------------------------
(* message.rs: PartyMsg, PreprocMsg *)

\* PartyMsg::Elem(Fp), Com(Commitment), Opening(Opening).  k is history: the
\* index of the instruction its sender was handling; no code reads it.
Elem(x, k) == [kind |-> "Elem", body |-> x, k |-> k]
Com(c, k) == [kind |-> "Com", body |-> c, k |-> k]
Opening(o, k) == [kind |-> "Opening", body |-> o, k |-> k]

TripleMsg(a, b, c) == [a |-> a, b |-> b, c |-> c]
\* sharing is history: which of the sharings of the harness the share is of;
\* no code reads it
RandShareMsg(share, clear, party_id, sharing) ==
    [share |-> share, clear |-> clear, party_id |-> party_id, sharing |-> sharing]
\* PreprocMsg::new_triple
new_triple(a, b, c) == [kind |-> "Triple", msg |-> TripleMsg(a, b, c)]
\* PreprocMsg::new_rand_share
new_rand_share(share, clear, party_id, sharing) ==
    [kind |-> "RandShare", msg |-> RandShareMsg(share, clear, party_id, sharing)]

-----------------------------------------------------------------------------
(* vm.rs: the VM thread *)

\* s_chan.send(action)?: the send fails once the party thread has returned
\* and dropped the receiver, and the VM returns the error
Deliver(o, i) ==
    IF IsSome(o.act) /\ party[i].ppc = "done" THEN VMReturn(o.v, RetErr("Send")) ELSE o.v

Emit(o, i) ==
    /\ vm' = [vm EXCEPT ![i] = Deliver(o, i)]
    /\ action_chan' = [action_chan EXCEPT ![i] =
                          IF IsSome(o.act) /\ party[i].ppc # "done"
                          THEN Append(@, Unwrap(o.act)) ELSE @]

\* history of the step in which VM i sends the Action of the outcome o: the
\* number of Action::Next the party has been sent
EmitHist(h, o, i) ==
    IF IsSome(o.act) /\ party[i].ppc # "done" /\ Unwrap(o.act).kind = "Next"
    THEN [h EXCEPT !.vmnext[i] = @ + 1] ELSE h

\* history of the step in which VM i, in state v, runs inst: the rand-share
\* each Input has popped, and which sharing it is of, or that the Input has
\* found no rand-share of its owner
ExecHist(h, i, v, inst, chan) ==
    LET msgs == Drain(v.rand_msgs, chan) IN
    IF inst.op = "Input" /\ msgs[inst.id] # <<>>
    THEN [h EXCEPT !.used[i] = Append(@, msgs[inst.id][Len(msgs[inst.id])].sharing),
                   !.popped[i] = Append(@, msgs[inst.id][Len(msgs[inst.id])])]
    ELSE IF inst.op = "Input" THEN [h EXCEPT !.missed[i] = @ + 1]
    ELSE h

\* VM::listen: r_chan.recv_timeout(TIMEOUT) returns an instruction, which
\* runs up to its first channel operation that can block
VMExec(i) ==
    /\ vm[i].vpc = "idle"
    /\ inst_chan[i] # <<>>
    /\ inst_chan' = [inst_chan EXCEPT ![i] = Tail(@)]
    /\ Emit(Exec(vm[i], Head(inst_chan[i]), rand_chan[i]), i)
    /\ rand_chan' = [rand_chan EXCEPT ![i] = IF Head(inst_chan[i]).op = "Input" THEN <<>> ELSE @]
    /\ hist' = EmitHist(ExecHist(hist, i, vm[i], Head(inst_chan[i]), rand_chan[i]),
                         Exec(vm[i], Head(inst_chan[i]), rand_chan[i]), i)
    /\ UNCHANGED <<n, prog, sync, to_party, to_sync, party, party_chans, preproc_chan,
                   triple_chan, reply_chan>>

\* the reply of the party to the pending Action arrives
Resume(v, reply) ==
    CASE v.vpc = "input"      -> do_input_reply(v, reply.v)
      [] v.vpc = "open"       -> do_open_reply(v, reply.v)
      [] v.vpc = "sout_open"  -> do_secret_output_opened(v, reply.v)
      [] v.vpc = "sout_check" -> do_mac_check_reply(v, reply.res)
      [] v.vpc = "stop_check" -> do_mac_check_reply(v, reply.res)

\* history of the step in which VM i, in state v, takes reply and becomes w:
\* the openings it has pushed onto its log, the openings of the Checks that
\* returned Ok, and the values its SOutputs have pushed onto the output
VMHist(h, i, v, reply, w) ==
    [h EXCEPT
        !.pushed[i] = IF Len(w.partial_openings) > Len(v.partial_openings) THEN @ + 1 ELSE @,
        !.checked[i] = IF v.vpc \in {"sout_check", "stop_check"} /\ reply.res = "Ok"
                       THEN @ + Len(v.partial_openings) ELSE @,
        !.sout[i] = IF v.vpc = "sout_check" /\ Len(w.output) > Len(v.output)
                    THEN Append(@, [reg |-> v.hold.r0, value |-> w.output[Len(w.output)],
                                    opened |-> v.partial_openings[Len(v.partial_openings)][1]])
                    ELSE @]

\* a recv_timeout the VM is blocked in returns a value: the reply to its
\* Action, or the triple of do_triple
VMRecv(i) ==
    /\ IF vm[i].vpc = "triple"
       THEN /\ triple_chan[i] # <<>>
            /\ triple_chan' = [triple_chan EXCEPT ![i] = Tail(@)]
            /\ Emit(do_triple(vm[i], Head(triple_chan[i])), i)
            /\ hist' = EmitHist(hist, do_triple(vm[i], Head(triple_chan[i])), i)
            /\ UNCHANGED reply_chan
       ELSE /\ vm[i].vpc \in {"input", "open", "sout_open", "sout_check", "stop_check"}
            /\ reply_chan[i] # <<>>
            /\ reply_chan' = [reply_chan EXCEPT ![i] = Tail(@)]
            /\ LET o == Resume(vm[i], Head(reply_chan[i])) IN
                /\ Emit(o, i)
                /\ hist' = EmitHist(VMHist(hist, i, vm[i], Head(reply_chan[i]), o.v), o, i)
            /\ UNCHANGED triple_chan
    /\ UNCHANGED <<n, prog, sync, to_party, to_sync, party, party_chans, preproc_chan,
                   rand_chan, inst_chan>>

\* the channel the VM is blocked on is empty
VMStarved(i) ==
    CASE vm[i].vpc = "idle"   -> inst_chan[i] = <<>>
      [] vm[i].vpc = "triple" -> triple_chan[i] = <<>>
      [] vm[i].vpc = "done"   -> FALSE
      [] OTHER                -> reply_chan[i] = <<>>

\* recv_timeout(TIMEOUT)? fails (the timeout passes, or the sender is gone):
\* the VM returns the error
VMRecvFail(i) ==
    /\ VMStarved(i)
    /\ vm' = [vm EXCEPT ![i] = VMReturn(@, RetErr("RecvTimeout"))]
    /\ UNCHANGED <<n, prog, sync, to_party, to_sync, party, party_chans, preproc_chan,
                   triple_chan, rand_chan, inst_chan, action_chan, reply_chan, hist>>

-----------------------------------------------------------------------------
(* party.rs: the party thread *)

\* capacity of the forwarding queues
FORWARDING_CAP == 1024

\* Party::spawn and the start of Party::listen: the VM is spawned, pc = 0,
\* and the party waits for Start.  nchans is the length of s_party_chans
\* and r_party_chans.
PartyInit(id, alpha_share, nchans) ==
    [ppc |-> "wait_start", id |-> id, alpha_share |-> alpha_share, nchans |-> nchans,
     pc |-> 0, inst |-> <<>>, ph |-> "", bmsg |-> <<>>, idx |-> 0, acc |-> <<>>,
     openings |-> <<>>, ci |-> 0, d_open |-> <<>>, d_coms |-> <<>>, rng |-> 0,
     res |-> Running]

\* handle_vm_actions is back at r_action_chan.recv_timeout
AtActions(p) ==
    [p EXCEPT !.ppc = "actions", !.ph = "", !.bmsg = <<>>, !.idx = 0, !.acc = <<>>,
              !.openings = <<>>, !.ci = 0, !.d_open = <<>>, !.d_coms = <<>>]

\* the party thread returns (`?` on an error, a panic, or the result of the VM)
PartyReturn(p, res) == [AtActions(p) EXCEPT !.ppc = "done", !.inst = <<>>, !.res = res]

\* Party::bcast: message::broadcast starts its loop over s_party_chans
StartBcast(p, ph, m, owner) ==
    [p EXCEPT !.ppc = "bcast", !.ph = ph, !.bmsg = [m |-> m, owner |-> owner], !.idx = 0]

\* a party that gathers the elements of an Open from one channel only
StartRecv_OpenFromOne(p, ph, from) ==
    [p EXCEPT !.ppc = "recv", !.ph = IF ph = "open" THEN "input" ELSE ph, !.bmsg = <<>>,
              !.idx = from, !.acc = <<>>]

\* Party::recv: message::receive starts its loop over r_party_chans; for an
\* Input the only receive is on the channel of the owner
StartRecv(p, ph, from) == [p EXCEPT !.ppc = "recv", !.ph = ph, !.bmsg = <<>>, !.idx = from, !.acc = <<>>]

\* the 32 random bytes the k-th rng.gen() of the seeded ChaCha20Rng returns
Nonce(k) == k

\* a mac_check that commits to alpha_i * x + mac_i
StartMacCheck_AddMac(p, ci) ==
    LET x == p.openings[ci][1]
        share == p.openings[ci][2]
        d == FpAdd(FpMul(p.alpha_share, x), share.mac)
        c == commit(d, Nonce(p.rng))
    IN StartBcast([p EXCEPT !.ci = ci, !.d_open = c.opening, !.d_coms = <<>>, !.rng = @ + 1],
                  "com", Com(c.com, p.pc - 1), 0)

\* a party that broadcasts its opening first and its commitment afterwards
StartMacCheck_OpensFirst(p, ci) ==
    LET x == p.openings[ci][1]
        share == p.openings[ci][2]
        d == FpSub(FpMul(p.alpha_share, x), share.mac)
        c == commit(d, Nonce(p.rng))
    IN StartBcast([p EXCEPT !.ci = ci, !.d_open = c.opening, !.d_coms = <<>>, !.rng = @ + 1],
                  "com", Opening(c.opening, p.pc - 1), 0)

\* Party::mac_check up to its first broadcast: d = alpha_i * x - mac_i is
\* committed and the commitment broadcast
StartMacCheck(p, ci) ==
    LET x == p.openings[ci][1]
        share == p.openings[ci][2]
        d == FpSub(FpMul(p.alpha_share, x), share.mac)
        c == commit(d, Nonce(p.rng))
    IN StartBcast([p EXCEPT !.ci = ci, !.d_open = c.opening, !.d_coms = <<>>, !.rng = @ + 1],
                  "com", Com(c.com, p.pc - 1), 0)

\* the step a broadcast leads to once its loop is over
AfterBcast(p) ==
    IF p.ph = "input" THEN StartRecv(p, "input", p.bmsg.owner) ELSE StartRecv(p, p.ph, 0)

\* history of the step in which party i sends m on its channel to party j:
\* the number of messages of each kind sent from i to j
SentHist(h, i, j, m) == [h EXCEPT !.psent[m.kind][i][j] = @ + 1]

\* Party::bcast, one c.send(m.clone())? of the loop of message::broadcast (it
\* blocks while the channel is full and fails once the receiver is dropped);
\* with no channel the loop is empty
PartyBcast(i) ==
    LET p == party[i] IN
    /\ p.ppc = "bcast"
    /\ IF p.nchans = 0
       THEN /\ party' = [party EXCEPT ![i] = AfterBcast(p)]
            /\ UNCHANGED <<party_chans, hist>>
       ELSE IF Gone(p.idx)
       THEN /\ party' = [party EXCEPT ![i] = PartyReturn(p, RetErr("Send"))]
            /\ UNCHANGED <<party_chans, hist>>
       ELSE /\ Len(party_chans[i][p.idx]) < TEST_CAP
            /\ party_chans' = [party_chans EXCEPT ![i][p.idx] = Append(@, p.bmsg.m)]
            /\ hist' = SentHist(hist, i, p.idx, p.bmsg.m)
            /\ party' = [party EXCEPT ![i] = IF p.idx + 1 = p.nchans THEN AfterBcast(p)
                                             ELSE [p EXCEPT !.idx = @ + 1]]
    /\ UNCHANGED <<n, prog, sync, to_party, to_sync, vm, preproc_chan, triple_chan,
                   rand_chan, inst_chan, action_chan, reply_chan>>

\* every message of the vector is of the kind the unwrap expects
AllKind(msgs, kind) == \A k \in 1..Len(msgs) : msgs[k].kind = kind
Bodies(msgs) == [k \in 1..Len(msgs) |-> msgs[k].body]
Values(opens) == [k \in 1..Len(opens) |-> opens[k].v]
Min(a, b) == IF a < b THEN a ELSE b

\* a mac_check that verifies the commitments only
MacCheckVerdict_NoSum(d_opens, d_coms) ==
    LET coms_ok == \A k \in 1..Min(Len(d_opens), Len(d_coms)) : verify(d_opens[k], d_coms[k])
    IN IF ~coms_ok THEN "BadCommitment" ELSE "Ok"

\* a mac_check that tests the sum before the commitments
MacCheckVerdict_SumFirst(d_opens, d_coms) ==
    LET coms_ok == \A k \in 1..Min(Len(d_opens), Len(d_coms)) : verify(d_opens[k], d_coms[k])
        zero_ok == SumSeq(Values(d_opens)) = 0
    IN IF ~zero_ok THEN "SumIsNotZero"
       ELSE IF ~coms_ok THEN "BadCommitment"
       ELSE "Ok"

\* a mac_check that fails when it has gathered nothing
MacCheckVerdict_EmptyFails(d_opens, d_coms) ==
    LET coms_ok == \A k \in 1..Min(Len(d_opens), Len(d_coms)) : verify(d_opens[k], d_coms[k])
        zero_ok == d_opens # <<>> /\ SumSeq(Values(d_opens)) = 0
    IN IF ~coms_ok THEN "BadCommitment"
       ELSE IF ~zero_ok THEN "SumIsNotZero"
       ELSE "Ok"

\* the end of Party::mac_check: every opening is verified against the
\* commitment of the same channel, and the opened values must sum to zero
MacCheckVerdict(d_opens, d_coms) ==
    LET coms_ok == \A k \in 1..Min(Len(d_opens), Len(d_coms)) : verify(d_opens[k], d_coms[k])
        zero_ok == SumSeq(Values(d_opens)) = 0
    IN IF ~coms_ok THEN "BadCommitment"
       ELSE IF ~zero_ok THEN "SumIsNotZero"
       ELSE "Ok"

\* what the party does with its Action once a gather is complete: a new
\* party state and the reply it sends to the VM, if any
Gathered(p, reply) == [p |-> p, reply |-> reply]

\* a party that replies the sum of the elements of its peers without its own
OpenDone_PeersOnly(p, msgs) ==
    IF ~AllKind(msgs, "Elem") THEN Gathered(PartyReturn(p, Panicked("expected elem")), None)
    ELSE Gathered(AtActions(p), Some(ReplyFp(FpSub(SumSeq(Bodies(msgs)), msgs[p.id + 1].body))))

\* Action::Open: the elements are summed and the sum replied
OpenDone(p, msgs) ==
    IF ~AllKind(msgs, "Elem") THEN Gathered(PartyReturn(p, Panicked("expected elem")), None)
    ELSE Gathered(AtActions(p), Some(ReplyFp(SumSeq(Bodies(msgs)))))

\* Action::Input: the element of the owner is replied
InputDone(p, msgs) ==
    IF ~AllKind(msgs, "Elem") THEN Gathered(PartyReturn(p, Panicked("expected elem")), None)
    ELSE Gathered(AtActions(p), Some(ReplyFp(msgs[1].body)))

\* a party 0 that keeps its own commitment in place of those of its peers
ComDone_ZeroKeepsOwn(p, msgs) ==
    IF ~AllKind(msgs, "Com") THEN Gathered(PartyReturn(p, Panicked("expected com")), None)
    ELSE Gathered(StartBcast([p EXCEPT !.d_coms = IF p.id = 0
                                                  THEN [k \in 1..Len(msgs) |-> Bodies(msgs)[1]]
                                                  ELSE Bodies(msgs),
                                       !.acc = <<>>], "opening",
                             Opening(p.d_open, p.pc - 1), 0), None)

\* Party::mac_check after the commitments are gathered: the opening is broadcast
ComDone(p, msgs) ==
    IF ~AllKind(msgs, "Com") THEN Gathered(PartyReturn(p, Panicked("expected com")), None)
    ELSE Gathered(StartBcast([p EXCEPT !.d_coms = Bodies(msgs), !.acc = <<>>], "opening",
                             Opening(p.d_open, p.pc - 1), 0), None)

\* a party that checks every entry of the log and replies the verdict of the last
OpeningDone_ChecksAll(p, msgs) ==
    IF ~AllKind(msgs, "Opening")
    THEN Gathered(PartyReturn(p, Panicked("expected opening")), None)
    ELSE LET verdict == MacCheckVerdict(Bodies(msgs), p.d_coms) IN
         IF p.ci < Len(p.openings) THEN Gathered(StartMacCheck(p, p.ci + 1), None)
         ELSE Gathered(AtActions(p), Some(ReplyCheck(verdict)))

\* Party::mac_check after the openings are gathered, then the loop of
\* Action::Check: the first failure is replied, or the next opening of the
\* log is checked, or Ok is replied after the last
OpeningDone(p, msgs) ==
    IF ~AllKind(msgs, "Opening")
    THEN Gathered(PartyReturn(p, Panicked("expected opening")), None)
    ELSE LET verdict == MacCheckVerdict(Bodies(msgs), p.d_coms) IN
         IF verdict # "Ok" THEN Gathered(AtActions(p), Some(ReplyCheck(verdict)))
         ELSE IF p.ci < Len(p.openings) THEN Gathered(StartMacCheck(p, p.ci + 1), None)
         ELSE Gathered(AtActions(p), Some(ReplyCheck("Ok")))

RecvDone(p, msgs) ==
    CASE p.ph = "open"    -> OpenDone(p, msgs)
      [] p.ph = "input"   -> InputDone(p, msgs)
      [] p.ph = "com"     -> ComDone(p, msgs)
      [] p.ph = "opening" -> OpeningDone(p, msgs)

\* sender.send(x)?: the reply goes to the VM; the send fails once the VM
\* thread has returned and dropped the receiver, and the party returns the error
Answer(g, i) ==
    /\ party' = [party EXCEPT ![i] =
                    IF IsSome(g.reply) /\ vm[i].vpc = "done"
                    THEN PartyReturn(g.p, RetErr("Send")) ELSE g.p]
    /\ reply_chan' = [reply_chan EXCEPT ![i] =
                         IF IsSome(g.reply) /\ vm[i].vpc # "done"
                         THEN Append(@, Unwrap(g.reply)) ELSE @]

\* the kind of PartyMsg the unwrap of each receive expects
Expected(ph) ==
    CASE ph = "com" -> "Com"
      [] ph = "opening" -> "Opening"
      [] OTHER -> "Elem"

\* history of the step in which party i, in state p, takes message m from
\* the channel of p.idx: who took what while handling which instruction, the
\* number of messages of each kind party i has taken from that channel, and
\* the verdict of each mac_check the party has completed with the (x, share)
\* pair it was called on
PartyHist(h, i, p, m, msgs, last) ==
    [h EXCEPT
        !.taken = @ \cup {[by |-> i, from |-> p.idx, at |-> p.pc - 1, k |-> m.k,
                           kind |-> m.kind, want |-> Expected(p.ph)]},
        !.pgot[m.kind][i][p.idx] = @ + 1,
        !.verdicts[i] = IF last /\ p.ph = "opening" /\ AllKind(msgs, "Opening")
                        THEN Append(@, MacCheckVerdict(Bodies(msgs), p.d_coms)) ELSE @,
        !.checks[i] = IF last /\ p.ph = "opening" /\ AllKind(msgs, "Opening")
                      THEN Append(@, [x |-> p.openings[p.ci][1], share |-> p.openings[p.ci][2]])
                      ELSE @]

\* Party::recv, one c.recv_timeout of the loop of message::receive, when a
\* message is there (with no channel the loop is empty); for an Input,
\* self.r_party_chans[id].recv_timeout, which panics when there is no such channel
PartyRecv(i) ==
    LET p == party[i] IN
    /\ p.ppc = "recv"
    /\ IF p.ph = "input" /\ p.idx >= p.nchans
       THEN /\ party' = [party EXCEPT ![i] = PartyReturn(p, Panicked("index out of bounds"))]
            /\ UNCHANGED <<party_chans, reply_chan, hist>>
       ELSE IF p.nchans = 0
       THEN /\ Answer(RecvDone(p, <<>>), i)
            /\ UNCHANGED <<party_chans, hist>>
       ELSE /\ party_chans[p.idx][i] # <<>>
            /\ party_chans' = [party_chans EXCEPT ![p.idx][i] = Tail(@)]
            /\ LET m == Head(party_chans[p.idx][i])
                   msgs == Append(p.acc, m)
                   last == p.ph = "input" \/ p.idx + 1 = p.nchans
               IN /\ IF last
                     THEN Answer(RecvDone(p, msgs), i)
                     ELSE /\ party' = [party EXCEPT ![i] = [p EXCEPT !.acc = msgs, !.idx = @ + 1]]
                          /\ UNCHANGED reply_chan
                  /\ hist' = PartyHist(hist, i, p, m, msgs, last)
    /\ UNCHANGED <<n, prog, sync, to_party, to_sync, vm, preproc_chan, triple_chan,
                   rand_chan, inst_chan, action_chan>>

\* a party that replies Ok whatever the instruction was
SendReply_AlwaysOk(p, i, m, next) ==
    IF sync.spc = "done"
    THEN /\ party' = [party EXCEPT ![i] = PartyReturn(p, RetErr("Send"))]
         /\ UNCHANGED <<to_sync, hist>>
    ELSE /\ Len(to_sync[i]) < TEST_CAP
         /\ to_sync' = [to_sync EXCEPT ![i] = Append(@, "Ok")]
         /\ hist' = [hist EXCEPT !.replied[i] = Append(@, "Ok")]
         /\ party' = [party EXCEPT ![i] = [AtActions(p) EXCEPT !.ppc = next]]

\* a party that replies Ok after Stop too and stays in the loop of instructions
SendReply_StaysInLoop(p, i, m, next) ==
    IF sync.spc = "done"
    THEN /\ party' = [party EXCEPT ![i] = PartyReturn(p, RetErr("Send"))]
         /\ UNCHANGED <<to_sync, hist>>
    ELSE /\ Len(to_sync[i]) < TEST_CAP
         /\ to_sync' = [to_sync EXCEPT ![i] = Append(@, "Ok")]
         /\ hist' = [hist EXCEPT !.replied[i] = Append(@, "Ok")]
         /\ party' = [party EXCEPT ![i] = [AtActions(p) EXCEPT !.ppc = "step"]]

\* a party 0 that replies Done after every instruction
SendReply_DoneFromZero(p, i, m, next) ==
    IF sync.spc = "done"
    THEN /\ party' = [party EXCEPT ![i] = PartyReturn(p, RetErr("Send"))]
         /\ UNCHANGED <<to_sync, hist>>
    ELSE /\ Len(to_sync[i]) < TEST_CAP
         /\ to_sync' = [to_sync EXCEPT ![i] = Append(@, IF i = 0 THEN "Done" ELSE m)]
         /\ hist' = [hist EXCEPT !.replied[i] = Append(@, IF i = 0 THEN "Done" ELSE m)]
         /\ party' = [party EXCEPT ![i] = [AtActions(p) EXCEPT !.ppc = next]]

\* self.s_sync_chan.send(m)?: the send fails once the synchronizer thread has
\* returned and dropped the receiver
SendReply(p, i, m, next) ==
    IF sync.spc = "done"
    THEN /\ party' = [party EXCEPT ![i] = PartyReturn(p, RetErr("Send"))]
         /\ UNCHANGED <<to_sync, hist>>
    ELSE /\ Len(to_sync[i]) < TEST_CAP
         /\ to_sync' = [to_sync EXCEPT ![i] = Append(@, m)]
         /\ hist' = [hist EXCEPT !.replied[i] = Append(@, m)]
         /\ party' = [party EXCEPT ![i] = [AtActions(p) EXCEPT !.ppc = next]]

\* handle_vm_actions: r_action_chan.recv_timeout(TIMEOUT) returns an Action.
\* Action::Next ends handle_vm_actions and the party replies Done (after
\* Stop, then joins the VM) or Ok to the synchronizer.
PartyAction(i) ==
    LET p == party[i]
        a == Head(action_chan[i])
    IN
    /\ p.ppc = "actions"
    /\ action_chan[i] # <<>>
    /\ action_chan' = [action_chan EXCEPT ![i] = Tail(@)]
    /\ CASE a.kind = "Next" ->
              /\ IF p.inst = Stop THEN SendReply(p, i, "Done", "join")
                                  ELSE SendReply(p, i, "Ok", "step")
              /\ UNCHANGED reply_chan
         [] a.kind = "Open" ->
              /\ party' = [party EXCEPT ![i] = StartBcast(p, "open", Elem(a.x, p.pc - 1), 0)]
              /\ UNCHANGED <<reply_chan, to_sync, hist>>
         [] a.kind = "Input" ->
              /\ party' = [party EXCEPT ![i] =
                              IF IsSome(a.e)
                              THEN StartBcast(p, "input", Elem(Unwrap(a.e), p.pc - 1), a.id)
                              ELSE StartRecv(p, "input", a.id)]
              /\ UNCHANGED <<reply_chan, to_sync, hist>>
         [] a.kind = "Check" ->
              /\ IF a.openings = <<>>
                 THEN Answer(Gathered(p, Some(ReplyCheck("Ok"))), i)
                 ELSE /\ party' = [party EXCEPT ![i] =
                                      StartMacCheck([p EXCEPT !.openings = a.openings], 1)]
                      /\ UNCHANGED reply_chan
              /\ UNCHANGED <<to_sync, hist>>
    /\ UNCHANGED <<n, prog, sync, to_party, vm, party_chans, preproc_chan, triple_chan,
                   rand_chan, inst_chan>>

\* history of the step in which party i, in state p, takes msg from the
\* synchronizer: the Nexts it has taken in the step loop and the
\* instructions it has sent to its VM
SyncMsgHist(h, i, p, msg) ==
    IF p.ppc = "step" /\ msg = "Next"
    THEN [h EXCEPT !.nexts[i] = @ + 1,
                   !.fwd[i] = IF p.pc < Len(prog) /\ vm[i].vpc # "done"
                              THEN Append(@, prog[p.pc + 1]) ELSE @]
    ELSE h

\* the recv(self.r_sync_chan) arm of the two select! loops of Party::listen.
\* Before Start any other message is logged and ignored; in the step loop
\* Next forwards program[pc] to the VM and enters handle_vm_actions.
PartySyncMsg(i) ==
    LET p == party[i]
        msg == Head(to_party[i])
    IN
    /\ p.ppc \in {"wait_start", "step"}
    /\ to_party[i] # <<>>
    /\ to_party' = [to_party EXCEPT ![i] = Tail(@)]
    /\ hist' = SyncMsgHist(hist, i, p, msg)
    /\ IF p.ppc = "wait_start"
       THEN /\ party' = [party EXCEPT ![i].ppc = IF msg = "Start" THEN "step" ELSE "wait_start"]
            /\ UNCHANGED inst_chan
       ELSE CASE msg = "Start" ->
                   /\ party' = [party EXCEPT ![i] = PartyReturn(p, Panicked("party already started"))]
                   /\ UNCHANGED inst_chan
              [] msg = "Abort" ->
                   /\ party' = [party EXCEPT ![i] = PartyReturn(p, Panicked("abort"))]
                   /\ UNCHANGED inst_chan
              [] msg = "Next" ->
                   IF p.pc >= Len(prog)
                   THEN /\ party' = [party EXCEPT ![i] =
                                        PartyReturn(p, Panicked("instruction counter overflow"))]
                        /\ UNCHANGED inst_chan
                   ELSE IF vm[i].vpc = "done"
                   THEN \* s_inst_chan.send fails: the VM has dropped the receiver
                        /\ party' = [party EXCEPT ![i] =
                                        PartyReturn([p EXCEPT !.pc = @ + 1], RetErr("Send"))]
                        /\ UNCHANGED inst_chan
                   ELSE /\ Len(inst_chan[i]) < DEFAULT_CAP
                        /\ inst_chan' = [inst_chan EXCEPT ![i] = Append(@, prog[p.pc + 1])]
                        /\ party' = [party EXCEPT ![i] =
                                        [p EXCEPT !.ppc = "actions", !.pc = @ + 1,
                                                  !.inst = prog[p.pc + 1]]]
    /\ UNCHANGED <<n, prog, sync, to_sync, vm, party_chans, preproc_chan, triple_chan,
                   rand_chan, action_chan, reply_chan>>

\* try_send on a forwarding queue: it fails when the queue is full or the VM
\* has dropped the receiver
CanForward(q, i) == Len(q) < FORWARDING_CAP /\ vm[i].vpc # "done"

\* the recv(self.preproc_chan) arm of the two select! loops: the message is
\* forwarded to the queue of its variant with try_send(msg)?
PartyForward(i) ==
    LET p == party[i]
        x == Head(preproc_chan[i])
    IN
    /\ p.ppc \in {"wait_start", "step"}
    /\ preproc_chan[i] # <<>>
    /\ preproc_chan' = [preproc_chan EXCEPT ![i] = Tail(@)]
    /\ IF x.kind = "Triple"
       THEN /\ triple_chan' = [triple_chan EXCEPT ![i] =
                                  IF CanForward(@, i) THEN Append(@, x.msg) ELSE @]
            /\ party' = [party EXCEPT ![i] = IF CanForward(triple_chan[i], i) THEN p
                                             ELSE PartyReturn(p, RetErr("TrySend"))]
            /\ UNCHANGED rand_chan
       ELSE /\ rand_chan' = [rand_chan EXCEPT ![i] =
                                IF CanForward(@, i) THEN Append(@, x.msg) ELSE @]
            /\ party' = [party EXCEPT ![i] = IF CanForward(rand_chan[i], i) THEN p
                                             ELSE PartyReturn(p, RetErr("TrySend"))]
            /\ UNCHANGED triple_chan
    /\ hist' = [hist EXCEPT !.got[i] = @ + 1]
    /\ UNCHANGED <<n, prog, sync, to_party, to_sync, vm, party_chans, inst_chan,
                   action_chan, reply_chan>>

\* the receive the party is blocked in cannot return a message
PartyStarved(i) ==
    LET p == party[i] IN
    CASE p.ppc = "actions" -> action_chan[i] = <<>>
      [] p.ppc = "recv"    -> p.idx < p.nchans /\ party_chans[p.idx][i] = <<>>
         \* select! has no timeout: it fails only when the synchronizer
         \* thread has returned and dropped the sender
      [] p.ppc \in {"wait_start", "step"} -> to_party[i] = <<>> /\ sync.spc = "done"
      [] OTHER -> FALSE

\* recv_timeout(TIMEOUT)? or the recv of select! fails: the party returns the error
PartyRecvFail(i) ==
    /\ PartyStarved(i)
    /\ party' = [party EXCEPT ![i] =
                    PartyReturn(@, RetErr(IF @.ppc \in {"actions", "recv"} THEN "RecvTimeout"
                                          ELSE "Recv"))]
    /\ UNCHANGED <<n, prog, sync, to_party, to_sync, vm, party_chans, preproc_chan,
                   triple_chan, rand_chan, inst_chan, action_chan, reply_chan, hist>>

\* vm_handler.join().expect("thread panicked"): the result of the party
\* thread is the result of the VM thread
PartyJoin(i) ==
    /\ party[i].ppc = "join"
    /\ vm[i].vpc = "done"
    /\ party' = [party EXCEPT ![i] = PartyReturn(@, vm[i].res)]
    /\ UNCHANGED <<n, prog, sync, to_party, to_sync, vm, party_chans, preproc_chan,
                   triple_chan, rand_chan, inst_chan, action_chan, reply_chan, hist>>

-----------------------------------------------------------------------------
(* integration_test.rs: the harness *)

RECURSIVE Lcg(_, _)
\* the state of the seeded random generator after k draws
Lcg(seed, k) == IF k = 0 THEN seed + 1 ELSE (2 * Lcg(seed, k - 1)) % 11

\* Fp::random(rng): the k-th draw of the generator seeded with seed
Rnd(seed, k) == Lcg(seed, k) % P

\* crypto::unauth_share, its nn - 1 random shares being the draws k, k+1, ...
unauth_share(secret, nn, seed, k) ==
    LET rs == [i \in 1..(nn - 1) |-> Rnd(seed, k + i - 1)]
    IN Append(rs, FpSub(secret, SumSeq(rs)))

\* crypto::auth_share: 2 * (nn - 1) draws from the k-th on
auth_share(secret, nn, alpha, seed, k) ==
    LET mac_on_secret == FpMul(secret, alpha)
        reg_shares == unauth_share(secret, nn, seed, k)
        mac_shares == unauth_share(mac_on_secret, nn, seed, k + nn - 1)
    IN [i \in 1..nn |-> AuthShare(reg_shares[i], mac_shares[i])]

\* crypto::auth_triple: 2 + 6 * (nn - 1) draws from the k-th on
auth_triple(nn, alpha, seed, k) ==
    LET a == Rnd(seed, k)
        b == Rnd(seed, k + 1)
        c == FpMul(a, b)
    IN <<auth_share(a, nn, alpha, seed, k + 2),
         auth_share(b, nn, alpha, seed, k + 2 + 2 * (nn - 1)),
         auth_share(c, nn, alpha, seed, k + 2 + 4 * (nn - 1))>>

\* prog.iter().filter(|i| matches!(i, ...)).count()
CountOp(pr, op) == Cardinality({k \in 1..Len(pr) : pr[k].op = op})

\* no share is tampered with
NoTamper == [on |-> FALSE, party |-> 0, delta |-> 0]
\* the MAC of every rand-share delivered to one party is off by delta
Tamper(t, delta) == [on |-> TRUE, party |-> t, delta |-> delta]
Tampered(share, i, tamper) ==
    IF tamper.on /\ tamper.party = i
    THEN [share EXCEPT !.mac = FpAdd(@, tamper.delta)] ELSE share

\* generic_integration_test: what the harness enqueues on the preprocessing
\* inlet of party i before it spawns the parties: for each clear_id
\* max_rand_count rand-shares, then the triples
PreprocOf(i, nn, pr, alpha, seed, k0, tamper) ==
    LET max_rand_count == CountOp(pr, "Input")
        triple_count == CountOp(pr, "Triple")
        rand_draws == 1 + 2 * (nn - 1)
        triple_draws == 2 + 6 * (nn - 1)
        rand_from(j) == k0 + nn + (j - 1) * rand_draws
        triple_from(t) == k0 + nn + nn * max_rand_count * rand_draws + (t - 1) * triple_draws
        rand_share(j) ==
            LET clear_id == (j - 1) \div max_rand_count
                r == Rnd(seed, rand_from(j))
                auth_shares == auth_share(r, nn, alpha, seed, rand_from(j) + 1)
            IN new_rand_share(Tampered(auth_shares[i + 1], i, tamper),
                              IF clear_id = i THEN Some(r) ELSE None, clear_id, j)
        triple(t) ==
            LET abc == auth_triple(nn, alpha, seed, triple_from(t))
            IN new_triple(abc[1][i + 1], abc[2][i + 1], abc[3][i + 1])
    IN [j \in 1..(nn * max_rand_count) |-> rand_share(j)]
       \o [t \in 1..triple_count |-> triple(t)]

\* the global MAC key and its shares: the first nn draws of the harness, the
\* test having drawn k0 values before it calls the harness
AlphaOf(seed, k0) == Rnd(seed, k0)
AlphaShares(nn, seed, k0) == unauth_share(AlphaOf(seed, k0), nn, seed, k0 + 1)

\* the TripleMsgs among the messages of a preprocessing channel, in order
IsTriple(x) == x.kind = "Triple"
TriplesOn(q) == LET sel == SelectSeq(q, IsTriple) IN [k \in 1..Len(sel) |-> sel[k].msg]

HistInit(nn) ==
    [sent |-> [i \in 0..(nn - 1) |-> <<>>], gathers |-> <<>>,
     replied |-> [i \in 0..(nn - 1) |-> <<>>], tamper |-> NoTamper, taken |-> {},
     verdicts |-> [i \in 0..(nn - 1) |-> <<>>], sout |-> [i \in 0..(nn - 1) |-> <<>>],
     pushed |-> [i \in 0..(nn - 1) |-> 0], checked |-> [i \in 0..(nn - 1) |-> 0],
     used |-> [i \in 0..(nn - 1) |-> <<>>],
     nexts |-> [i \in 0..(nn - 1) |-> 0], fwd |-> [i \in 0..(nn - 1) |-> <<>>],
     vmnext |-> [i \in 0..(nn - 1) |-> 0], checks |-> [i \in 0..(nn - 1) |-> <<>>],
     popped |-> [i \in 0..(nn - 1) |-> <<>>], missed |-> [i \in 0..(nn - 1) |-> 0],
     inlet |-> [i \in 0..(nn - 1) |-> <<>>], got |-> [i \in 0..(nn - 1) |-> 0],
     psent |-> [kind \in {"Elem", "Com", "Opening"} |->
                   [i \in 0..(nn - 1) |-> [j \in 0..(nn - 1) |-> 0]]],
     pgot |-> [kind \in {"Elem", "Com", "Opening"} |->
                  [i \in 0..(nn - 1) |-> [j \in 0..(nn - 1) |-> 0]]]]

\* generic_integration_test(n, prog, regs, ..): the channels are created, the
\* preprocessing is enqueued, the synchronizer and the parties are spawned
Harness(nn, pr, regs, seed, k0, tamper) ==
    /\ n = nn
    /\ prog = pr
    /\ sync = SyncInit
    /\ to_party = [i \in 0..(nn - 1) |-> <<>>]
    /\ to_sync = [i \in 0..(nn - 1) |-> <<>>]
    /\ party = [i \in 0..(nn - 1) |-> PartyInit(i, AlphaShares(nn, seed, k0)[i + 1], nn)]
    /\ vm = [i \in 0..(nn - 1) |-> VMInit(i, AlphaShares(nn, seed, k0)[i + 1], regs[i + 1])]
    /\ party_chans = [i \in 0..(nn - 1) |-> [j \in 0..(nn - 1) |-> <<>>]]
    /\ preproc_chan = [i \in 0..(nn - 1) |-> PreprocOf(i, nn, pr, AlphaOf(seed, k0), seed, k0, tamper)]
    /\ triple_chan = [i \in 0..(nn - 1) |-> <<>>]
    /\ rand_chan = [i \in 0..(nn - 1) |-> <<>>]
    /\ inst_chan = [i \in 0..(nn - 1) |-> <<>>]
    /\ action_chan = [i \in 0..(nn - 1) |-> <<>>]
    /\ reply_chan = [i \in 0..(nn - 1) |-> <<>>]
    /\ hist = [HistInit(nn) EXCEPT
                   !.tamper = tamper,
                   !.inlet = [i \in 0..(nn - 1) |->
                                 TriplesOn(PreprocOf(i, nn, pr, AlphaOf(seed, k0), seed, k0, tamper))]]

\* the programs of the runs of Spec: an input of party 0 that is opened and
\* output, with a MAC check of two openings at SOutput, or of one opening at
\* SOutput and of one at Stop; and the output of a clear register that only
\* party 0 holds
ProgOpenOutput == <<Input(0, 0, 0), Open(1, 0), SOutput(0), COutput(1), Stop>>
ProgOutputOpen == <<Input(0, 0, 0), SOutput(0), Open(1, 0), COutput(1), Stop>>
ProgClearOutput == <<COutput(0), Stop>>
Programs == {ProgOpenOutput, ProgOutputOpen, ProgClearOutput}

\* party 0 holds the secret in clear[0], the other parties hold nothing
\* (the registers of integration_test_open)
RegsOf(nn, secret) == [i \in 1..nn |-> IF i = 1 THEN from_vec(<<secret>>, <<>>) ELSE RegEmpty]

\* integration_test_open: the secret is the first draw of the test
SecretOf(seed) == Rnd(seed, 0)

Init ==
    \E pr \in Programs, seed \in 0..(NumSeeds - 1) :
        Harness(N, pr, RegsOf(N, SecretOf(seed)), seed, 1, NoTamper)

\* the steps in which a receive fails: a timeout passes, or the peer thread
\* has returned and dropped its end of the channel
Fail ==
    \/ SyncTimeout
    \/ \E i \in Parties : PartyRecvFail(i)
    \/ \E i \in Parties : VMRecvFail(i)

\* every other step of the threads
Step ==
    \/ SyncBroadcast
    \/ SyncGather
    \/ SyncDecide
    \/ \E i \in Parties : PartySyncMsg(i)
    \/ \E i \in Parties : PartyForward(i)
    \/ \E i \in Parties : PartyAction(i)
    \/ \E i \in Parties : PartyBcast(i)
    \/ \E i \in Parties : PartyRecv(i)
    \/ \E i \in Parties : PartyJoin(i)
    \/ \E i \in Parties : VMExec(i)
    \/ \E i \in Parties : VMRecv(i)

Next == Step \/ Fail

Spec == Init /\ [][Next]_vars

\* the runs of ProgOpenOutput and ProgOutputOpen in which the MAC of the
\* rand-shares of one party is tampered with or left alone
Tampers == {Tamper(t, delta) : t \in 0..(N - 1), delta \in 1..(P - 1)}

InitTamper ==
    \E pr \in {ProgOpenOutput, ProgOutputOpen}, seed \in 0..(NumSeeds - 1),
       tamper \in Tampers \cup {NoTamper} :
        Harness(N, pr, RegsOf(N, SecretOf(seed)), seed, 1, tamper)

SpecTamper == InitTamper /\ [][Next]_vars

\* integration_test_input_output (scenario E5) with nn parties: party i
\* holds its input in clear[i] and zero in its other clear registers, every
\* party inputs its value, and the inputs are output, the last one by
\* SOutput and the others by COutput.  The inputs are the first nn draws of
\* the test.
ProgE5(nn) ==
    [k \in 1..nn |-> Input(k - 1, k - 1, k - 1)]
    \o [k \in 1..(nn - 1) |-> COutput(k - 1)]
    \o <<SOutput(nn - 1), Stop>>
InputsE5(nn, seed) == [i \in 1..nn |-> Rnd(seed, i - 1)]
RegsE5(nn, inputs) ==
    [i \in 1..nn |-> from_vec([k \in 1..nn |-> IF k = i THEN inputs[i] ELSE 0], <<>>)]

InitE5 ==
    \E seed \in 0..(NumSeeds - 1) :
        Harness(N, ProgE5(N), RegsE5(N, InputsE5(N, seed)), seed, N, NoTamper)

SpecE5 == InitE5 /\ [][Next]_vars

-----------------------------------------------------------------------------
(* The synchronizer alone, its peers played by the environment as in        *)
(* test_synchronizer: the test reads the SyncMsg channel and writes any     *)
(* reply to the reply channel.                                              *)

\* r_msg.recv_timeout(TIMEOUT).unwrap() of the test: the peer takes the next
\* SyncMsg and owes one reply for a Next
EnvRecv(i) ==
    /\ to_party[i] # <<>>
    /\ to_party' = [to_party EXCEPT ![i] = Tail(@)]
    /\ party' = [party EXCEPT ![i].owed = IF Head(to_party[i]) = "Next" THEN @ + 1 ELSE @]
    /\ UNCHANGED <<n, prog, sync, to_sync, vm, party_chans, preproc_chan, triple_chan,
                   rand_chan, inst_chan, action_chan, reply_chan, hist>>

\* s_reply.send(m).unwrap() of the test: the peer answers a Next with any reply
EnvReply(i, m) ==
    /\ party[i].owed > 0
    /\ party[i].replies < MaxReplies
    /\ Len(to_sync[i]) < TEST_CAP
    /\ to_sync' = [to_sync EXCEPT ![i] = Append(@, m)]
    /\ party' = [party EXCEPT ![i].owed = @ - 1, ![i].replies = @ + 1]
    /\ UNCHANGED <<n, prog, sync, to_party, vm, party_chans, preproc_chan, triple_chan,
                   rand_chan, inst_chan, action_chan, reply_chan, hist>>

InitSync ==
    /\ n = N
    /\ prog = <<>>
    /\ sync = SyncInit
    /\ to_party = [i \in 0..(N - 1) |-> <<>>]
    /\ to_sync = [i \in 0..(N - 1) |-> <<>>]
    /\ party = [i \in 0..(N - 1) |-> [ppc |-> "env", owed |-> 0, replies |-> 0]]
    /\ vm = <<>>
    /\ party_chans = <<>>
    /\ preproc_chan = <<>>
    /\ triple_chan = <<>>
    /\ rand_chan = <<>>
    /\ inst_chan = <<>>
    /\ action_chan = <<>>
    /\ reply_chan = <<>>
    /\ hist = HistInit(N)

NextSync ==
    \/ SyncBroadcast
    \/ SyncGather
    \/ SyncTimeout
    \/ SyncDecide
    \/ \E i \in Parties : EnvRecv(i)
    \/ \E i \in Parties, m \in SyncReplyMsg : EnvReply(i, m)

SpecSync == InitSync /\ [][NextSync]_vars

\* the synchronizer thread is scheduled: a send on a channel that has room
\* completes (message::broadcast)
SpecSyncFair == SpecSync /\ WF_vars(SyncBroadcast)

-----------------------------------------------------------------------------
(* One party running mac_check, its peers played by the test as in         *)
(* test_mac_check: the party echoes to itself on channel 0, what it sends   *)
(* to a peer is left in the channel, and the test writes a commitment and   *)
(* then an opening on the channel the party receives from that peer.        *)

\* the 32 random bytes of the commitments and openings of the test
TestNonces == {0, 1}

\* s_party_chan2.send(PartyMsg::Com(commitment)) then
\* s_party_chan2.send(PartyMsg::Opening(opening)): the peer j sends any
\* commitment, then any opening
TestSend(j) ==
    /\ j # 0
    /\ Len(party_chans[j][0]) < TEST_CAP
    /\ \E v \in Fp, r \in TestNonces :
          \/ /\ party[j].com = None
             /\ party' = [party EXCEPT ![j].com = Some(commit(v, r).com)]
             /\ party_chans' = [party_chans EXCEPT ![j][0] =
                                   Append(@, Com(commit(v, r).com, party[0].pc - 1))]
             /\ hist' = SentHist(hist, j, 0, Com(commit(v, r).com, party[0].pc - 1))
          \/ /\ party[j].com # None /\ party[j].opening = None
             /\ party' = [party EXCEPT ![j].opening = Some([v |-> v, r |-> r])]
             /\ party_chans' = [party_chans EXCEPT ![j][0] =
                                   Append(@, Opening([v |-> v, r |-> r], party[0].pc - 1))]
             /\ hist' = SentHist(hist, j, 0, Opening([v |-> v, r |-> r], party[0].pc - 1))
    /\ UNCHANGED <<n, prog, sync, to_party, to_sync, vm, preproc_chan, triple_chan,
                   rand_chan, inst_chan, action_chan, reply_chan>>

\* make_dummy_party and party.mac_check(&x, &share, rng): party 0 is at the
\* start of mac_check on any x and share, with any alpha share; the result
\* of the call is what it replies on reply_chan
InitMac ==
    \E alpha_share \in Fp, x \in Fp, share \in [share : Fp, mac : Fp] :
        /\ n = N
        /\ prog = <<>>
        /\ sync = SyncInit
        /\ to_party = [i \in 0..(N - 1) |-> <<>>]
        /\ to_sync = [i \in 0..(N - 1) |-> <<>>]
        /\ party = [i \in 0..(N - 1) |->
                       IF i = 0
                       THEN StartMacCheck([PartyInit(0, alpha_share, N) EXCEPT
                                               !.openings = <<<<x, share>>>>], 1)
                       ELSE [ppc |-> "env", com |-> None, opening |-> None]]
        /\ vm = [i \in 0..(N - 1) |-> VMInit(i, alpha_share, RegEmpty)]
        /\ party_chans = [i \in 0..(N - 1) |-> [j \in 0..(N - 1) |-> <<>>]]
        /\ preproc_chan = [i \in 0..(N - 1) |-> <<>>]
        /\ triple_chan = [i \in 0..(N - 1) |-> <<>>]
        /\ rand_chan = [i \in 0..(N - 1) |-> <<>>]
        /\ inst_chan = [i \in 0..(N - 1) |-> <<>>]
        /\ action_chan = [i \in 0..(N - 1) |-> <<>>]
        /\ reply_chan = [i \in 0..(N - 1) |-> <<>>]
        /\ hist = HistInit(N)

\* party.mac_check(..).unwrap() returns an error when a receive times out
MacRecvFail == party[0].ppc = "recv" /\ PartyRecvFail(0)

NextMac ==
    \/ PartyBcast(0)
    \/ PartyRecv(0)
    \/ MacRecvFail
    \/ \E j \in Parties : TestSend(j)

SpecMac == InitMac /\ [][NextMac]_vars

-----------------------------------------------------------------------------
(* integration_test_mul: x is in clear[0] of party 0, y in clear[1] of     *)
(* party 1; both are input, and multiplied with a Beaver triple.            *)

ProgMul ==
    <<Input(0, 0, 0), Input(1, 1, 1), Triple(2, 3, 4), SSub(5, 0, 2), SSub(6, 1, 3),
      Open(5, 5), Open(6, 6), MMul(7, 3, 5), MMul(8, 2, 6), CMul(9, 5, 6), SAdd(10, 4, 7),
      SAdd(10, 10, 8), MAdd(10, 10, 9, 0), SOutput(10), Stop>>

\* the registers of integration_test_mul
RegsMul(nn, x, y) ==
    [i \in 1..nn |-> IF i = 1 THEN from_vec(<<x, 0>>, <<>>)
                     ELSE IF i = 2 THEN from_vec(<<0, y>>, <<>>)
                     ELSE RegEmpty]

\* the test draws the two inputs, then calls the harness
InitMul ==
    \E seed \in 0..(NumSeeds - 1), x \in Fp, y \in Fp :
        Harness(N, ProgMul, RegsMul(N, x, y), seed, 2, NoTamper)

\* the runs of the test in which no receive fails: a thread whose receive
\* fails returns the error, and a party whose VM or whose synchronizer has
\* returned an error cannot return Ok, so these are the runs in which every
\* party returns Ok(outputs), and the prefixes of such runs
SpecMul == InitMul /\ [][Step]_vars

-----------------------------------------------------------------------------
(* integration_test_open (scenario E3): party 0 holds the secret in        *)
(* clear[0]; it is input, opened and output.                                *)

ProgE3 == <<Input(0, 0, 0), Open(1, 0), COutput(1), Stop>>

InitE3 ==
    \E seed \in 0..(NumSeeds - 1), secret \in Fp :
        Harness(N, ProgE3, RegsOf(N, secret), seed, 1, NoTamper)

SpecE3 == InitE3 /\ [][Next]_vars

-----------------------------------------------------------------------------
(* The VMs alone, each under vm_runner of the tests of vm.rs: the runner    *)
(* sends the VM one instruction and takes the Action::Next it answers. The  *)
(* registers hold sharings as test_auth_arithmetic makes them: a and b      *)
(* shared with MACs under alpha, and a clear constant that every party      *)
(* holds.                                                                   *)

\* the vectors of N shares that auth_share can return for secret under the
\* shares of alpha: shares that sum to secret with MACs that sum to
\* alpha * secret
AuthSharings(secret, alpha_shares) ==
    {s \in [1..N -> [share : Fp, mac : Fp]] :
        /\ SumSeq([j \in 1..N |-> s[j].share]) = secret
        /\ SumSeq([j \in 1..N |-> s[j].mac]) = FpMul(SumSeq(alpha_shares), secret)}

\* the instructions of compute_secret_op, prop_mixed_mul and prop_mixed_add,
\* the last for every PartyID up to the first that is no party
ProgsArith ==
    {<<SAdd(2, 1, 0)>>, <<SSub(2, 1, 0)>>, <<MMul(2, 1, 0)>>}
    \cup {<<MAdd(2, 1, 0, id)>> : id \in 0..N}

\* a thread of the test that plays the party of a VM
RunnerInit == [ppc |-> "env"]

InitArith ==
    \E pr \in ProgsArith, alpha_shares \in [1..N -> Fp], a \in Fp, b \in Fp, const_c \in Fp :
        \E a_shares \in AuthSharings(a, alpha_shares), b_shares \in AuthSharings(b, alpha_shares) :
            /\ n = N
            /\ prog = pr
            /\ sync = SyncInit
            /\ to_party = [i \in 0..(N - 1) |-> <<>>]
            /\ to_sync = [i \in 0..(N - 1) |-> <<>>]
            /\ party = [i \in 0..(N - 1) |-> RunnerInit]
            /\ vm = [i \in 0..(N - 1) |->
                        VMInit(i, alpha_shares[i + 1],
                               from_vec(<<const_c>>, <<a_shares[i + 1], b_shares[i + 1]>>))]
            /\ party_chans = [i \in 0..(N - 1) |-> [j \in 0..(N - 1) |-> <<>>]]
            /\ preproc_chan = [i \in 0..(N - 1) |-> <<>>]
            /\ triple_chan = [i \in 0..(N - 1) |-> <<>>]
            /\ rand_chan = [i \in 0..(N - 1) |-> <<>>]
            /\ inst_chan = [i \in 0..(N - 1) |-> pr]
            /\ action_chan = [i \in 0..(N - 1) |-> <<>>]
            /\ reply_chan = [i \in 0..(N - 1) |-> <<>>]
            /\ hist = HistInit(N)

NextArith == \E i \in Parties : VMExec(i)

SpecArith == InitArith /\ [][NextArith]_vars

-----------------------------------------------------------------------------
(* The VMs under vm_runner, on one instruction and registers of which some  *)
(* are empty: Reg::from_vec fills the first registers and leaves the others *)
(* empty. The rand-share of prop_input waits on rand_chan.                  *)

\* one instruction of every kind that reads a register; the instructions
\* with two sources read registers 0 and 1 in either order
ProgsEmpty ==
    {<<Ins(op, 2, r[1], r[2], 0)>> :
        op \in {"CAdd", "CSub", "CMul", "SAdd", "SSub", "MAdd", "MMul"},
        r \in {<<1, 0>>, <<0, 1>>}}
    \cup {<<COutput(0)>>, <<Open(2, 0)>>, <<SOutput(0)>>, <<Input(2, 0, 0)>>}

\* the register contents the runner passes to Reg::from_vec
VClears == {<<>>, <<1>>, <<1, 2>>}
VSecrets == {<<>>, <<[share |-> 1, mac |-> 2]>>, <<[share |-> 1, mac |-> 2], [share |-> 2, mac |-> 0]>>}

InitEmpty ==
    \E pr \in ProgsEmpty, vclear \in [0..(N - 1) -> VClears], vsecret \in [0..(N - 1) -> VSecrets],
       r \in Fp :
        /\ n = N
        /\ prog = pr
        /\ sync = SyncInit
        /\ to_party = [i \in 0..(N - 1) |-> <<>>]
        /\ to_sync = [i \in 0..(N - 1) |-> <<>>]
        /\ party = [i \in 0..(N - 1) |-> RunnerInit]
        /\ vm = [i \in 0..(N - 1) |-> VMInit(i, 0, from_vec(vclear[i], vsecret[i]))]
        /\ party_chans = [i \in 0..(N - 1) |-> [j \in 0..(N - 1) |-> <<>>]]
        /\ preproc_chan = [i \in 0..(N - 1) |-> <<>>]
        /\ triple_chan = [i \in 0..(N - 1) |-> <<>>]
        /\ rand_chan = [i \in 0..(N - 1) |->
                           <<RandShareMsg([share |-> 1, mac |-> 0],
                                          IF i = 0 THEN Some(r) ELSE None, 0, 1)>>]
        /\ inst_chan = [i \in 0..(N - 1) |-> pr]
        /\ action_chan = [i \in 0..(N - 1) |-> <<>>]
        /\ reply_chan = [i \in 0..(N - 1) |-> <<>>]
        /\ hist = HistInit(N)

NextEmpty == \E i \in Parties : VMExec(i)

SpecEmpty == InitEmpty /\ [][NextEmpty]_vars

-----------------------------------------------------------------------------
(* A run of the harness on a program of two Triple instructions, one share  *)
(* of which is then opened.                                                 *)

ProgTriples == <<Triple(0, 1, 2), Triple(3, 4, 5), Open(0, 2), Stop>>

InitTriples ==
    \E seed \in 0..(NumSeeds - 1) :
        Harness(N, ProgTriples, [i \in 1..N |-> RegEmpty], seed, 0, NoTamper)

SpecTriples == InitTriples /\ [][Next]_vars

-----------------------------------------------------------------------------
(* One party whose preprocessing inlet is fed while its VM consumes         *)
(* nothing: the producer of the preprocessing sends the items of a program  *)
(* of Triples, or of Inputs, faster than the program runs.                  *)

\* the producer sends the next item on the inlet of party 0, which holds
\* TEST_CAP messages
EnvPreproc ==
    /\ Len(preproc_chan[0]) < TEST_CAP
    /\ preproc_chan' = [preproc_chan EXCEPT ![0] =
           Append(@, IF prog[1].op = "Triple"
                     THEN new_triple(AuthShare(0, 0), AuthShare(0, 0), AuthShare(0, 0))
                     ELSE new_rand_share(AuthShare(0, 0), Some(0), 0, 0))]
    /\ UNCHANGED <<n, prog, sync, to_party, to_sync, party, vm, party_chans, triple_chan,
                   rand_chan, inst_chan, action_chan, reply_chan, hist>>

InitForward ==
    \E pr \in {<<Triple(0, 1, 2)>>, <<Input(0, 0, 0)>>} :
        /\ n = 1
        /\ prog = pr
        /\ sync = SyncInit
        /\ to_party = [i \in {0} |-> <<>>]
        /\ to_sync = [i \in {0} |-> <<>>]
        /\ party = [i \in {0} |-> PartyInit(0, 0, 1)]
        /\ vm = [i \in {0} |-> VMInit(0, 0, RegEmpty)]
        /\ party_chans = [i \in {0} |-> [j \in {0} |-> <<>>]]
        /\ preproc_chan = [i \in {0} |-> <<>>]
        /\ triple_chan = [i \in {0} |-> <<>>]
        /\ rand_chan = [i \in {0} |-> <<>>]
        /\ inst_chan = [i \in {0} |-> <<>>]
        /\ action_chan = [i \in {0} |-> <<>>]
        /\ reply_chan = [i \in {0} |-> <<>>]
        /\ hist = HistInit(1)

NextForward == EnvPreproc \/ PartyForward(0)

SpecForward == InitForward /\ [][NextForward]_vars

-----------------------------------------------------------------------------
(* integration_test_triple: one party that is given empty vectors of peer   *)
(* channels, on a program that takes a triple, opens one of its shares and  *)
(* outputs it.  The shares of the triple carry any MAC.                     *)

ProgSolo == <<Triple(0, 1, 2), Open(3, 0), SOutput(0), Stop>>

InitSolo ==
    \E share \in Fp, mac \in Fp, alpha_share \in Fp :
        /\ n = 1
        /\ prog = ProgSolo
        /\ sync = SyncInit
        /\ to_party = [i \in {0} |-> <<>>]
        /\ to_sync = [i \in {0} |-> <<>>]
        /\ party = [i \in {0} |-> PartyInit(0, alpha_share, 0)]
        /\ vm = [i \in {0} |-> VMInit(0, alpha_share, RegEmpty)]
        /\ party_chans = [i \in {0} |-> [j \in {0} |-> <<>>]]
        /\ preproc_chan = [i \in {0} |-> <<new_triple(AuthShare(share, mac), AuthShare(1, 1),
                                                      AuthShare(2, 2))>>]
        /\ triple_chan = [i \in {0} |-> <<>>]
        /\ rand_chan = [i \in {0} |-> <<>>]
        /\ inst_chan = [i \in {0} |-> <<>>]
        /\ action_chan = [i \in {0} |-> <<>>]
        /\ reply_chan = [i \in {0} |-> <<>>]
        /\ hist = [HistInit(1) EXCEPT
                      !.inlet = [i \in {0} |-> <<TripleMsg(AuthShare(share, mac), AuthShare(1, 1),
                                                            AuthShare(2, 2))>>]]

SpecSolo == InitSolo /\ [][Next]_vars

-----------------------------------------------------------------------------
(* The claims *)

\* number of occurrences of x in the sequence s
CountOf(s, x) == Cardinality({k \in 1..Len(s) : s[k] = x})

\* the gathers of the synchronizer so far that returned n replies, all of them m
GathersAll(m) ==
    {g \in 1..Len(hist.gathers) :
        /\ Len(hist.gathers[g].msgs) = n
        /\ \A k \in 1..n : hist.gathers[g].msgs[k] = m}

\* C1: the synchronizer sends each party exactly one Start, before every
\* Next; a further Next is sent only after a gather of n replies that are
\* all Ok, so no party is sent more Nexts than 1 + the number of such gathers
C1_StartThenNextPerOkGather ==
    \A i \in Parties :
        LET s == hist.sent[i] IN
        /\ s # <<>> => s[1] = "Start"
        /\ CountOf(s, "Start") <= 1
        /\ CountOf(s, "Next") <= 1 + Cardinality(GathersAll("Ok"))

\* a party was sent a second Next after an all-Ok gather
C1_Witness ==
    \E i \in Parties : CountOf(hist.sent[i], "Next") = 2 /\ Cardinality(GathersAll("Ok")) = 1

\* C2: the instruction counters of any two parties differ by at most one at
\* every moment, and they are equal whenever the synchronizer has gathered
\* n Ok replies and has not yet sent the next Next
C2_Lockstep ==
    /\ \A i, j \in Parties : party[i].pc - party[j].pc <= 1
    /\ (\/ sync.spc = "decide" /\ Len(sync.msgs) = n /\ \A k \in 1..n : sync.msgs[k] = "Ok"
        \/ sync.spc = "bcast" /\ sync.m = "Next" /\ sync.idx = 0 /\ GathersAll("Ok") # {})
       => \A i, j \in Parties : party[i].pc = party[j].pc

\* the synchronizer has gathered the Ok replies to the second instruction
\* and is about to send the third Next
C2_Witness ==
    /\ sync.spc = "bcast" /\ sync.m = "Next" /\ sync.idx = 0
    /\ Cardinality(GathersAll("Ok")) = 2
    /\ \A i \in Parties : party[i].pc = 2

\* C3: every PartyMsg a party takes from the channel of a peer while it
\* handles instruction k was sent by that peer while handling its own
\* instruction k, and is of the kind the unwrap expects: no unwrap panics
C3_MessagesOfTheSameInstruction ==
    /\ \A t \in hist.taken : t.k = t.at /\ t.kind = t.want
    /\ \A i \in Parties :
          party[i].res.err \notin {"expected elem", "expected com", "expected opening"}

\* a party has taken the Opening of a peer in a MAC check
C3_Witness ==
    \E t \in hist.taken : t.by # t.from /\ t.kind = "Opening" /\ t.at >= 2

\* C4: a party whose MAC check has failed replies SyncReplyMsg::Abort to the
\* synchronizer: once the check of the party has failed, its VM has returned
\* the MAC check error and its thread has returned, the Abort has been sent
C4_AbortRepliedOnMacFailure ==
    \A i \in Parties :
        (/\ \E k \in 1..Len(hist.verdicts[i]) : hist.verdicts[i][k] # "Ok"
         /\ vm[i].res.err \in {"SumIsNotZero", "BadCommitment"}
         /\ party[i].ppc = "done")
            => \E k \in 1..Len(hist.replied[i]) : hist.replied[i][k] = "Abort"

\* C5, as the specification states it: the value a successful SOutput(k)
\* appends is the sum over the parties of the shares of secret[k], the same
\* value at every party
C5_AppendsTheClearValue ==
    \A i \in Parties : \A q \in 1..Len(hist.sout[i]) :
        LET s == hist.sout[i][q] IN
        (\A j \in Parties : IsSome(vm[j].reg.secret[s.reg])) =>
            s.value = SumSeq([j \in 1..n |-> Unwrap(vm[j - 1].reg.secret[s.reg]).share])

\* C5, amended: the value a successful SOutput(k) appends is the own share of
\* the party of secret[k]; the values the n parties append sum to the value
\* that was opened, which is the sum of the shares
C5_AppendsTheOwnShare ==
    /\ \A i \in Parties : \A q \in 1..Len(hist.sout[i]) :
          LET s == hist.sout[i][q] IN
          /\ IsSome(vm[i].reg.secret[s.reg])
          /\ s.value = Unwrap(vm[i].reg.secret[s.reg]).share
    /\ (\A i \in Parties : Len(hist.sout[i]) >= 1) =>
          \A i \in Parties :
              /\ SumSeq([j \in 1..n |-> hist.sout[j - 1][1].value]) = hist.sout[i][1].opened
              /\ SumSeq([j \in 1..n |-> Unwrap(vm[j - 1].reg.secret[hist.sout[i][1].reg]).share])
                    = hist.sout[i][1].opened

\* every party has appended the value of an SOutput, and the value one of
\* them has appended is not the opened value
C5_Witness ==
    /\ \A i \in Parties : Len(hist.sout[i]) = 1
    /\ \E i \in Parties : hist.sout[i][1].value # hist.sout[i][1].opened

\* every party thread has returned Ok(outputs)
AllPartiesOk == \A i \in Parties : party[i].res.state = "ok"

\* the inputs of E5: party i holds x_i in clear[i]
InputsHeld == [i \in 1..n |-> Unwrap(vm[i - 1].reg.clear[i - 1])]

C7_TamperedMacIsRejected ==
    hist.tamper.on =>
        \A i \in Parties :
            /\ \A k \in 1..Len(hist.verdicts[i]) : hist.verdicts[i][k] = "SumIsNotZero"
            /\ hist.sout[i] = <<>>
            /\ vm[i].res.state # "ok"
            /\ party[i].res.state # "ok"

\* the MAC is tampered with and every party has completed a MAC check, which
\* returned SumIsNotZero and made its VM return the error
C7_Witness ==
    /\ hist.tamper.on
    /\ \A i \in Parties : hist.verdicts[i] = <<"SumIsNotZero">>
    /\ \A i \in Parties : vm[i].res = RetErr("SumIsNotZero")

\* C8: when the VM thread has returned a MAC check error or EmptyError, the
\* result of the party thread is that same error
C8_PartyReturnsTheErrorOfTheVM ==
    \A i \in Parties :
        (/\ vm[i].res.state = "err"
         /\ vm[i].res.err \in {"SumIsNotZero", "BadCommitment", "EmptyError"}
         /\ party[i].ppc = "done")
            => party[i].res = vm[i].res

\* C9: a VM returns Ok(outputs) only with an empty log of partial openings:
\* every opening it has pushed was in a Check that returned Ok
C9_OkOnlyWithCheckedOpenings ==
    \A i \in Parties :
        vm[i].res.state = "ok" =>
            /\ vm[i].partial_openings = <<>>
            /\ hist.checked[i] = hist.pushed[i]

\* a VM has returned Ok(outputs) at a Stop that had an opening to check
C9_Witness ==
    \E i \in Parties :
        /\ vm[i].res.state = "ok"
        /\ hist.pushed[i] = 2 /\ hist.checked[i] = 2
        /\ prog = ProgOutputOpen

\* C10: after a gather of replies that are all Done the synchronizer thread
\* has returned Ok(()) and has sent nothing since the gather
C10_HaltAfterAllDone ==
    GathersAll("Done") # {} =>
        /\ sync.spc = "done"
        /\ sync.res = RetOk(<<>>)
        /\ \A g \in GathersAll("Done") : hist.sent = hist.gathers[g].sent

\* the synchronizer has halted on an all-Done gather that followed an
\* all-Ok gather
C10_Witness ==
    /\ GathersAll("Done") # {} /\ GathersAll("Ok") # {}
    /\ sync.res = RetOk(<<>>)

\* the messages sent to party i since the gather g
SentSince(g, i) ==
    SubSeq(hist.sent[i], Len(hist.gathers[g].sent[i]) + 1, Len(hist.sent[i]))

\* the gathers so far with at least one Abort among their n replies
GathersWithAbort ==
    {g \in 1..Len(hist.gathers) :
        /\ Len(hist.gathers[g].msgs) = n
        /\ Contains(hist.gathers[g].msgs, "Abort")}

\* after a gather with an Abort the synchronizer gathers no more, sends each
\* party nothing but one Abort, and returns Ok(()) once every party has it
AbortGatherHandled ==
    \A g \in GathersWithAbort :
        /\ g = Len(hist.gathers)
        /\ \A i \in Parties : SentSince(g, i) \in {<<>>, <<"Abort">>}
        /\ sync.spc \in {"bcast", "done"}
        /\ sync.spc = "bcast" => sync.m = "Abort"
        /\ sync.spc = "done" =>
              /\ sync.res = RetOk(<<>>)
              /\ \A i \in Parties : SentSince(g, i) = <<"Abort">>

\* C11: when a gather contains an Abort reply, whatever the other replies
\* are, the synchronizer sends Abort to every party, sends no Next after the
\* gather, and its thread returns
C11_AbortOnAnyAbortReply ==
    /\ []AbortGatherHandled
    /\ (GathersWithAbort # {}) ~> (sync.spc = "done" /\ sync.res = RetOk(<<>>))

\* the synchronizer has returned after a gather of one Abort and one Ok that
\* followed an all-Ok gather
C11_Witness ==
    /\ sync.spc = "done"
    /\ GathersAll("Ok") # {}
    /\ \E g \in GathersWithAbort :
          /\ Contains(hist.gathers[g].msgs, "Ok")
          /\ \A i \in Parties : SentSince(g, i) = <<"Abort">>

\* C12: for every Next a party takes in its step loop it sends one
\* instruction, program[pc], to its VM and, once the VM has emitted
\* Action::Next for that instruction, one reply to the synchronizer: Done
\* if the instruction was Stop, Ok otherwise.  A step that fails (a send or
\* a receive returns an error, or the party panics) ends the thread with no
\* reply.
C12_OneInstructionAndOneReplyPerNext ==
    \A i \in Parties :
        LET f == hist.fwd[i]
            r == hist.replied[i]
            k == hist.nexts[i]
        IN /\ Len(f) <= Len(prog)
           /\ f = SubSeq(prog, 1, Len(f))
           /\ k \in {Len(f), Len(f) + 1}
           /\ k = Len(f) + 1 =>
                 party[i].ppc = "done" /\ party[i].res.state \in {"err", "panic"}
           /\ Len(r) <= hist.vmnext[i]
           /\ hist.vmnext[i] <= Len(f)
           /\ Len(r) <= k
           /\ k <= Len(r) + 1
           /\ party[i].ppc \in {"wait_start", "step", "join"} => Len(r) = k
           /\ party[i].res.state = "ok" => Len(r) = k
           /\ \A j \in 1..Len(r) : r[j] = IF prog[j] = Stop THEN "Done" ELSE "Ok"

\* a party has returned Ok after replying Ok to every Next but the last and
\* Done to the last, that of Stop
C12_Witness ==
    \E i \in Parties :
        /\ party[i].res.state = "ok"
        /\ hist.nexts[i] = Len(prog)
        /\ Len(hist.replied[i]) = Len(prog)
        /\ Len(prog) >= 3
        /\ hist.replied[i][1] = "Ok"
        /\ hist.replied[i][Len(prog)] = "Done"

\* the results of the threads of the run
ThreadResults == {sync.res} \cup {party[i].res : i \in Parties} \cup {vm[i].res : i \in Parties}

\* a receive or a send of some thread has failed (a timeout, or a peer gone)
ChannelFailed ==
    \E r \in ThreadResults : r.state = "err" /\ r.err \in {"RecvTimeout", "Recv", "Send", "TrySend"}

\* an Input has found no rand-share of its owner, or a Triple finds no triple
PreprocMissed ==
    \E i \in Parties :
        \/ vm[i].res = RetErr("EmptyError")
        \/ vm[i].vpc = "triple" /\ triple_chan[i] = <<>>

\* C13, its safety part: with honest parties running the same program on
\* initialised registers, as long as no receive has timed out and every
\* Input and Triple has found its preprocessing item, no thread has
\* returned anything but Ok, so that every party can still reply Done and
\* return Ok(outputs)
C13_HonestRunReturnsOk ==
    (~ChannelFailed /\ ~PreprocMissed) =>
        \A r \in ThreadResults : r.state \in {"running", "ok"}

\* the MAC key: the sum of the alpha shares of the parties
Alpha == SumSeq([j \in 1..n |-> party[j - 1].alpha_share])

\* every party has completed its k-th mac_check
AllChecked(k) == \A j \in Parties : Len(hist.checks[j]) >= k

\* the (x, share) pairs of the k-th mac_check are well-formed: the parties
\* check the same x, their shares sum to x and their MACs to alpha * x
WellFormed(k) ==
    LET x == hist.checks[0][k].x IN
    /\ \A j \in Parties : hist.checks[j][k].x = x
    /\ SumSeq([j \in 1..n |-> hist.checks[j - 1][k].share.share]) = x
    /\ SumSeq([j \in 1..n |-> hist.checks[j - 1][k].share.mac]) = FpMul(Alpha, x)

\* C14: when the (x, share) pairs the parties hold for a mac_check are
\* well-formed, the mac_check returns Ok at every party, for every pair of
\* the log and whatever the number of pairs the log has
C14_WellFormedSharesPassTheMacCheck ==
    \A k \in 1..Len(hist.checks[0]) :
        (AllChecked(k) /\ WellFormed(k)) =>
            \A i \in Parties : hist.verdicts[i][k] = "Ok"

\* every party has completed two mac_checks on well-formed pairs, those of a
\* log of two pairs
C14_Witness ==
    /\ AllChecked(2) /\ WellFormed(1) /\ WellFormed(2)
    /\ prog = ProgOpenOutput
    /\ \A i \in Parties : hist.verdicts[i] = <<"Ok", "Ok">>

\* the peers whose opening does not verify against their commitment
BadOpeners ==
    {j \in Parties \ {0} :
        /\ party[j].com # None /\ party[j].opening # None
        /\ ~verify(Unwrap(party[j].opening), Unwrap(party[j].com))}

\* C15: when the opening a party has received from some peer in the open
\* round does not verify against the commitment it has received from that
\* peer in the commit round, mac_check returns BadCommitment, whatever the
\* opened values sum to
C15_BadOpeningIsBadCommitment ==
    (hist.verdicts[0] # <<>> /\ BadOpeners # {}) =>
        /\ hist.verdicts[0] = <<"BadCommitment">>
        /\ reply_chan[0] = <<ReplyCheck("BadCommitment")>>

\* mac_check has returned BadCommitment on an opening of the committed value
\* with other random bytes, the opened values summing to zero
C15_Witness ==
    /\ hist.verdicts[0] = <<"BadCommitment">>
    /\ \E j \in BadOpeners :
          /\ Unwrap(party[j].com).c[2] = Unwrap(party[j].opening).v
          /\ Unwrap(party[j].com).c[1] # Unwrap(party[j].opening).r
    /\ SumSeq([j \in 1..n |-> IF j = 1
                              THEN FpSub(FpMul(party[0].alpha_share, hist.checks[0][1].x),
                                         hist.checks[0][1].share.mac)
                              ELSE Unwrap(party[j - 1].opening).v]) = 0

\* every party has popped, for each of its Inputs, a rand-share of the same
\* sharing as the other parties
SameSharings == \A i, j \in Parties : hist.used[i] = hist.used[j]

C17_InputThenOpen ==
    LET s == Unwrap(vm[0].reg.clear[0]) IN
    /\ \A i \in Parties : party[i].res.state = "ok" => party[i].res.out = <<s>>
    /\ AllPartiesOk =>
          unauth_combine([i \in 1..n |-> party[i - 1].res.out[1]]) = FpMul(n % P, s)

\* every party has returned Ok(outputs) in E3 with a nonzero secret
C17_Witness ==
    /\ AllPartiesOk
    /\ prog = ProgE3
    /\ Unwrap(vm[0].reg.clear[0]) # 0
    /\ \A i \in Parties : party[i].res.out = <<Unwrap(vm[0].reg.clear[0])>>

\* the number of Input instructions among the first k of the program
InputIndex(k) == Cardinality({m \in 1..k : prog[m].op = "Input"})

\* VM i has completed the Input at place k of a program in which no other
\* instruction writes the destination register
InputCompleted(i, k) ==
    /\ Len(hist.popped[i]) >= InputIndex(k)
    /\ vm[i].reg.secret[prog[k].r0] # None

\* the masked input e = clear[c] - r that the owner of the Input at place k
\* broadcasts, from its clear register and the rand-share it has popped
MaskedInput(k) ==
    FpSub(Unwrap(vm[prog[k].id].reg.clear[prog[k].r1]),
          Unwrap(hist.popped[prog[k].id][InputIndex(k)].clear))

\* C18: in E5, for every Input(d, c, owner) of the program, a party that has
\* completed it holds in secret[d] the rand-share it has popped, with
\* alpha_i * e added to the MAC and e added to the share at the owner only,
\* e being the owner's clear[c] minus the owner's r; and once every party has
\* completed it with rand-shares of the same sharing, the shares of
\* secret[d] sum to the owner's clear[c] and the MACs to alpha * clear[c]
C18_InputIsAnAuthenticatedSharing ==
    \A k \in 1..Len(prog) :
        prog[k].op = "Input" =>
            /\ \A i \in Parties :
                  InputCompleted(i, k) =>
                      LET r == hist.popped[i][InputIndex(k)].share
                          s == Unwrap(vm[i].reg.secret[prog[k].r0])
                      IN /\ Len(hist.popped[prog[k].id]) >= InputIndex(k)
                         /\ s.share = IF i = prog[k].id
                                      THEN FpAdd(r.share, MaskedInput(k)) ELSE r.share
                         /\ s.mac = FpAdd(r.mac, FpMul(vm[i].alpha_share, MaskedInput(k)))
            /\ ( /\ \A i \in Parties : InputCompleted(i, k)
                 /\ \A i, j \in Parties :
                       hist.popped[i][InputIndex(k)].sharing = hist.popped[j][InputIndex(k)].sharing )
               => LET x == Unwrap(vm[prog[k].id].reg.clear[prog[k].r1]) IN
                  /\ SumSeq([j \in 1..n |-> Unwrap(vm[j - 1].reg.secret[prog[k].r0]).share]) = x
                  /\ SumSeq([j \in 1..n |-> Unwrap(vm[j - 1].reg.secret[prog[k].r0]).mac])
                         = FpMul(Alpha, x)

\* every party has completed the Input of the last party, whose masked input
\* is not zero, and all have popped rand-shares of one sharing
C18_Witness ==
    /\ prog = ProgE5(n)
    /\ \A i \in Parties : InputCompleted(i, n)
    /\ \A i, j \in Parties : hist.popped[i][n].sharing = hist.popped[j][n].sharing
    /\ MaskedInput(n) # 0
    /\ Alpha # 0

\* the sum of the alpha shares the VMs hold
AlphaOfVMs == SumSeq([j \in 1..n |-> vm[j - 1].alpha_share])

\* every VM holds a share in secret[r], the shares sum to v and the MACs sum
\* to alpha * v
Shared(r, v) ==
    /\ \A i \in Parties : vm[i].reg.secret[r] # None
    /\ SumSeq([j \in 1..n |-> Unwrap(vm[j - 1].reg.secret[r]).share]) = v
    /\ SumSeq([j \in 1..n |-> Unwrap(vm[j - 1].reg.secret[r]).mac]) = FpMul(AlphaOfVMs, v)

\* every VM holds the clear value c in clear[r]
Known(r, c) == \A i \in Parties : vm[i].reg.clear[r] = Some(c)

\* every VM has executed the instruction its runner has sent
AllExecuted == \A i \in Parties : inst_chan[i] = <<>>

\* C19: once every VM has executed the instruction op(d, r1, r2), if the
\* shares of the sources sum to v1 (and v2) with MACs that sum to alpha * v1
\* (and alpha * v2), or the clear source is c at every party, then the shares
\* of secret[d] sum to v1 + v2 for SAdd, v1 - v2 for SSub, c * v1 for MMul
\* and, the owner being a party, v1 + c for MAdd, and the MACs of secret[d]
\* sum to alpha times that; after MAdd the party whose id is the owner holds
\* its source share plus c, every other party its source share, and every
\* party its source MAC plus alpha_i * c
C19_ArithmeticPreservesTheSharing ==
    AllExecuted =>
        LET inst == prog[1] IN
        \A v1, v2 \in Fp :
            /\ (inst.op = "SAdd" /\ Shared(inst.r1, v1) /\ Shared(inst.r2, v2))
                   => Shared(inst.r0, FpAdd(v1, v2))
            /\ (inst.op = "SSub" /\ Shared(inst.r1, v1) /\ Shared(inst.r2, v2))
                   => Shared(inst.r0, FpSub(v1, v2))
            /\ (inst.op = "MMul" /\ Shared(inst.r1, v1) /\ Known(inst.r2, v2))
                   => Shared(inst.r0, FpMul(v2, v1))
            /\ (inst.op = "MAdd" /\ Shared(inst.r1, v1) /\ Known(inst.r2, v2))
                   => /\ inst.id \in Parties => Shared(inst.r0, FpAdd(v1, v2))
                      /\ \A i \in Parties :
                            LET s == Unwrap(vm[i].reg.secret[inst.r1])
                                d == Unwrap(vm[i].reg.secret[inst.r0])
                            IN /\ d.share = IF i = inst.id THEN FpAdd(s.share, v2) ELSE s.share
                               /\ d.mac = FpAdd(s.mac, FpMul(vm[i].alpha_share, v2))

\* every VM has executed an MAdd whose owner is a party and whose constant is
\* not zero, under a key that is not zero
C19_Witness ==
    /\ AllExecuted
    /\ prog[1].op = "MAdd"
    /\ prog[1].id \in Parties
    /\ \E v1 \in Fp, c \in Fp \ {0} : Shared(prog[1].r1, v1) /\ Known(prog[1].r2, c)
    /\ AlphaOfVMs # 0
    /\ \A i \in Parties : vm[i].res = Running

\* the VM v reads an empty register when it executes inst: a source of an
\* arithmetic instruction, the register of COutput, Open or SOutput, the
\* clear input of Input at its owner
ReadsEmpty(v, inst) ==
    CASE inst.op \in {"CAdd", "CSub", "CMul"} ->
            v.reg.clear[inst.r1] = None \/ v.reg.clear[inst.r2] = None
      [] inst.op \in {"SAdd", "SSub"} ->
            v.reg.secret[inst.r1] = None \/ v.reg.secret[inst.r2] = None
      [] inst.op \in {"MAdd", "MMul"} ->
            v.reg.secret[inst.r1] = None \/ v.reg.clear[inst.r2] = None
      [] inst.op = "COutput" -> v.reg.clear[inst.r0] = None
      [] inst.op = "Open" -> v.reg.secret[inst.r1] = None
      [] inst.op = "SOutput" -> v.reg.secret[inst.r0] = None
      [] inst.op = "Input" -> v.id = inst.id /\ v.reg.clear[inst.r1] = None
      [] OTHER -> FALSE

\* the step in which VM i takes the instruction at the head of its channel
Executes(i) == vm[i].vpc = "idle" /\ inst_chan[i] # <<>> /\ inst_chan'[i] = Tail(inst_chan[i])

\* C20: a step in which a VM executes an instruction that reads an empty
\* register makes the VM return MPCError::EmptyError, writes no register,
\* appends nothing to the output and sends no Action (no Action::Next)
C20_EmptyRegisterStopsTheVM ==
    [][\A i \in Parties :
          (Executes(i) /\ ReadsEmpty(vm[i], Head(inst_chan[i]))) =>
              /\ vm'[i].res = RetErr("EmptyError")
              /\ vm'[i].reg = vm[i].reg
              /\ vm'[i].output = vm[i].output
              /\ action_chan'[i] = action_chan[i]
              /\ hist'.vmnext[i] = hist.vmnext[i]]_vars

\* VM 0 has returned EmptyError on an Input whose clear register is empty,
\* with registers and output as at the start and nothing sent, while VM 1,
\* which is not the owner, has sent its Action::Input
C20_Witness ==
    /\ prog = <<Input(2, 0, 0)>>
    /\ vm[0].res = RetErr("EmptyError")
    /\ vm[0].reg.clear[0] = None
    /\ vm[0].reg.secret[2] = None
    /\ action_chan[0] = <<>>
    /\ vm[1].reg.clear[0] = None
    /\ Len(action_chan[1]) = 1

\* C21: with the preprocessing of the program enqueued on the inlet of each
\* party before the parties are spawned, no Input finds the vector of its
\* owner empty and every VM that executes a Triple finds a triple on its
\* forwarding queue
C21_PreprocessingReachesTheVM ==
    \A i \in Parties :
        /\ hist.missed[i] = 0
        /\ vm[i].vpc = "triple" => triple_chan[i] # <<>>

\* C22: for every Input of the program, the parties that have executed it
\* have popped rand-shares of the same sharing
C22_PartiesPopTheSameSharing ==
    \A i, j \in Parties :
        \A k \in 1..Min(Len(hist.used[i]), Len(hist.used[j])) :
            hist.used[i][k] = hist.used[j][k]

\* the number of Triple instructions among the first k of the program
TripleIndex(k) == Cardinality({m \in 1..k : prog[m].op = "Triple"})

\* the Triple instructions of the program that VM i has completed, in a
\* program in which no other instruction writes their destinations
TriplesStored(i) ==
    {k \in 1..Len(prog) : prog[k].op = "Triple" /\ vm[i].reg.secret[prog[k].r0] # None}

\* C23: the Triple instruction that is the k-th Triple of the program has
\* stored, at every party whose VM has completed it, the three shares of the
\* k-th triple delivered on the preprocessing inlet of the party; and as
\* long as the VM runs, the triples waiting on its forwarding queue followed
\* by those still on the inlet are the triples delivered after the ones
\* stored, in the order of delivery
C23_TriplesAreConsumedInOrder ==
    \A i \in Parties :
        /\ \A k \in TriplesStored(i) :
              LET t == hist.inlet[i][TripleIndex(k)] IN
              /\ vm[i].reg.secret[prog[k].r0] = Some(t.a)
              /\ vm[i].reg.secret[prog[k].r1] = Some(t.b)
              /\ vm[i].reg.secret[prog[k].r2] = Some(t.c)
        /\ vm[i].vpc # "done" =>
              triple_chan[i] \o TriplesOn(preproc_chan[i])
                  = SubSeq(hist.inlet[i], Cardinality(TriplesStored(i)) + 1, Len(hist.inlet[i]))

\* every VM has completed both Triple instructions of the program, on two
\* triples that differ at every party
C23_Witness ==
    /\ prog = ProgTriples
    /\ \A i \in Parties :
          /\ Cardinality(TriplesStored(i)) = 2
          /\ hist.inlet[i][1] # hist.inlet[i][2]
          /\ hist.inlet[i][1].a # hist.inlet[i][1].b

\* C24: a VM whose Input has found no rand-share of the owner has not
\* returned the empty error: it waits, and only a timeout ends it
C24_MissingItemIsAwaited ==
    \A i \in Parties : hist.missed[i] > 0 => vm[i].res \in {Running, RetErr("RecvTimeout")}

\* party i has returned the error of a try_send on a forwarding queue
ForwardFailed(i) == party[i].res = RetErr("TrySend")

\* C25: a party whose forwarding queue is full does not fail: it keeps the
\* message until the VM has made room
C25_FullQueueBlocksTheParty == \A i \in Parties : ~ForwardFailed(i)

\* the step in which VM i takes the reply of the party to its Action
TakesReply(i) ==
    /\ vm[i].vpc \in {"input", "open", "sout_open", "sout_check", "stop_check"}
    /\ reply_chan[i] # <<>>
    /\ reply_chan'[i] = Tail(reply_chan[i])

\* C26: when the VM of an SOutput takes the opened value it appends
\* (opened, share) to the log and sends one Action::Check that carries the
\* whole log; a step that removes entries from the log is the step that
\* takes the reply Ok of a Check, and it empties the log; but for the step
\* that executes an instruction (a COutput), the output grows only in the
\* step that takes the reply Ok of the Check of an SOutput, by the value of
\* the SOutput; a Check reply that is not Ok leaves the log and
\* the output alone and the VM returns the error
C26_SOutputChecksTheWholeLog ==
    [][\A i \in Parties :
          LET v == vm[i]
              w == vm'[i]
          IN /\ (TakesReply(i) /\ v.vpc = "sout_open" /\ party[i].ppc # "done") =>
                    /\ w.partial_openings =
                           Append(v.partial_openings, <<Head(reply_chan[i]).v, v.hold.share>>)
                    /\ action_chan'[i] = Append(action_chan[i], ActCheck(w.partial_openings))
                    /\ w.output = v.output
             /\ (Len(w.partial_openings) < Len(v.partial_openings)) =>
                    /\ TakesReply(i)
                    /\ v.vpc \in {"sout_check", "stop_check"}
                    /\ Head(reply_chan[i]).res = "Ok"
                    /\ w.partial_openings = <<>>
             /\ (TakesReply(i) /\ v.vpc \in {"sout_check", "stop_check"}) =>
                    IF Head(reply_chan[i]).res = "Ok"
                    THEN /\ w.partial_openings = <<>>
                         /\ w.output = IF v.vpc = "sout_check"
                                       THEN Append(v.output, v.hold.share.share) ELSE v.output
                    ELSE /\ w.partial_openings = v.partial_openings
                         /\ w.output = v.output
                         /\ w.res = RetErr(Head(reply_chan[i]).res)
             /\ (w.output # v.output /\ ~Executes(i)) =>
                    TakesReply(i) /\ v.vpc = "sout_check" /\ Head(reply_chan[i]).res = "Ok"]_vars

\* a VM has appended the value of an SOutput after a Check of a log of two
\* openings, which is empty again
C26_Witness ==
    \E i \in Parties :
        /\ prog = ProgOpenOutput
        /\ Len(hist.checks[i]) = 2
        /\ hist.checked[i] = 2
        /\ Len(vm[i].output) = 1
        /\ vm[i].partial_openings = <<>>

\* C27: the number of Openings a party has sent to any party is at most the
\* number of commitments it has taken from each of its n channels, its own
\* included, which is at most the number of commitments the party at the
\* other end has sent it: a party sends the Opening of a MAC check only
\* after every party has sent its commitment of that check
C27_CommitBeforeOpen ==
    \A i, t, j \in Parties :
        /\ hist.psent["Opening"][i][t] <= hist.pgot["Com"][i][j]
        /\ hist.pgot["Com"][i][j] <= hist.psent["Com"][j][i]

\* a party has sent the Openings of its second MAC check to every party
C27_Witness ==
    \E i \in Parties : \A t \in Parties : hist.psent["Opening"][i][t] = 2

\* the sum over the parties of their shares of secret[r]
SharesSum(r) == SumSeq([j \in 1..n |-> Unwrap(vm[j - 1].reg.secret[r]).share])

\* C28: the value the party replies to the Action::Open of Open(to, from) is
\* the sum of the shares all n parties hold in secret[from], the same at
\* every party; the VM that takes it stores it in clear[to] and appends it
\* with its own share to the log
C28_OpenRepliesTheSumOfAllShares ==
    [][\A i \in Parties :
          (TakesReply(i) /\ vm[i].vpc = "open") =>
              LET opened == Head(reply_chan[i]).v
                  inst == hist.fwd[i][Len(hist.fwd[i])]
              IN /\ inst.op = "Open"
                 /\ \A j \in Parties : vm[j].reg.secret[inst.r1] # None
                 /\ opened = SharesSum(inst.r1)
                 /\ vm'[i].reg.clear[inst.r0] = Some(opened)
                 /\ vm'[i].partial_openings =
                        Append(vm[i].partial_openings,
                               <<opened, Unwrap(vm[i].reg.secret[inst.r1])>>)]_vars

\* every VM has stored the opened value of Open(1, 0), which is neither its
\* own share nor the share of its peer
C28_Witness ==
    /\ prog = ProgOpenOutput
    /\ \A i \in Parties :
          /\ vm[i].reg.clear[1] # None
          /\ vm[i].reg.secret[0] # None
          /\ vm[i].reg.clear[1] # Some(Unwrap(vm[i].reg.secret[0]).share)
    /\ vm[0].reg.clear[1] = vm[1].reg.clear[1]

\* party i is inside the mac_check of an entry of the log of a Check
InCheck(p) == p.ppc \in {"bcast", "recv"} /\ p.ph \in {"com", "opening"}

\* the mac_checks a party has completed for the Check it is handling are
\* those of the entries before the current one, in the order of the log, and
\* each of them has returned Ok
CheckedInOrder(i) ==
    LET p == party[i]
        base == Len(hist.checks[i]) - (p.ci - 1)
    IN InCheck(p) =>
          /\ p.ci \in 1..Len(p.openings)
          /\ base >= 0
          /\ \A k \in 1..(p.ci - 1) :
                /\ hist.checks[i][base + k] = [x |-> p.openings[k][1], share |-> p.openings[k][2]]
                /\ hist.verdicts[i][base + k] = "Ok"

\* C29: while a party handles an Action::Check it runs mac_check on the
\* entries of the log one at a time in the order of the log, going on to the
\* next entry only after the current one has returned Ok; the step that
\* replies to the Check replies the verdict of the entry just checked, which
\* is Ok only at the last entry of the log, finds the reply channel empty and
\* leaves the party back at the Actions of the VM with no check running, so
\* that one reply is sent per Check and no entry after a failed one is checked
C29_CheckStopsAtTheFirstFailure ==
    /\ [](\A i \in Parties : CheckedInOrder(i))
    /\ [][\A i \in Parties :
             LET p == party[i]
                 q == party'[i]
             IN /\ (InCheck(p) /\ InCheck(q) /\ q.ci # p.ci) =>
                       /\ q.ci = p.ci + 1
                       /\ q.openings = p.openings
                       /\ hist'.verdicts[i][Len(hist'.verdicts[i])] = "Ok"
                /\ (InCheck(p) /\ reply_chan'[i] # reply_chan[i]) =>
                       /\ reply_chan[i] = <<>>
                       /\ Len(reply_chan'[i]) = 1
                       /\ reply_chan'[i][1].res = hist'.verdicts[i][Len(hist'.verdicts[i])]
                       /\ Len(hist'.verdicts[i]) = Len(hist.verdicts[i]) + 1
                       /\ reply_chan'[i][1].res = "Ok" => p.ci = Len(p.openings)
                       /\ q.ppc = "actions"
                       /\ q.openings = <<>>]_vars

\* a party has replied SumIsNotZero to a Check of a log of two entries after
\* the mac_check of the first, and runs no check
C29_Witness ==
    \E i \in Parties :
        /\ prog = ProgOpenOutput
        /\ hist.verdicts[i] = <<"SumIsNotZero">>
        /\ Len(hist.checks[i]) = 1
        /\ reply_chan[i] = <<ReplyCheck("SumIsNotZero")>>
        /\ party[i].ppc = "actions"
        /\ Len(vm[i].partial_openings) = 2

\* party i has taken no message of the synchronizer yet: it is in the loop
\* that waits for Start
NotStarted(i) == Len(to_party[i]) = Len(hist.sent[i])

\* C30: a party that has not taken Start has forwarded every message it took
\* from the preprocessing inlet (the two forwarding queues, from which the VM
\* takes nothing before its first instruction, hold as many messages as the
\* party received), the triples in the order of arrival; it has forwarded no
\* instruction, sent no reply to the synchronizer, and its program counter is 0
C30_BeforeStartEverythingIsForwarded ==
    \A i \in Parties :
        NotStarted(i) =>
            /\ Len(triple_chan[i]) + Len(rand_chan[i]) = hist.got[i]
            /\ hist.inlet[i] # <<>> => triple_chan[i] \o TriplesOn(preproc_chan[i]) = hist.inlet[i]
            /\ party[i].pc = 0
            /\ inst_chan[i] = <<>>
            /\ hist.fwd[i] = <<>>
            /\ to_sync[i] = <<>>

\* party i is blocked in one of the two select! loops of Party::listen with
\* nothing to receive, and the synchronizer still holds the sender
WaitsForSync(i) ==
    /\ party[i].ppc \in {"wait_start", "step"}
    /\ to_party[i] = <<>>
    /\ preproc_chan[i] = <<>>
    /\ sync.spc # "done"

\* C31: a party that waits for a message of the synchronizer on a connected
\* channel, with nothing to receive, can fail with a timeout: the step in
\* which its receive returns the timeout error is enabled, after Start (it
\* has replied Ok) as well as before
C31_SyncReceiveTimesOut ==
    \A i \in Parties : WaitsForSync(i) => ENABLED PartyRecvFail(i)

\* party i takes a Next from the synchronizer channel in the loop of instructions
ProcessesNext(i) ==
    /\ party[i].ppc = "step"
    /\ to_party[i] # <<>>
    /\ Head(to_party[i]) = "Next"
    /\ to_party'[i] = Tail(to_party[i])

\* C32: the program counter of a party is 0 until its first Next, it is at
\* most the length of the program, and no party panics with 'instruction
\* counter overflow'; a step changes it exactly when the party takes a Next
\* in the loop of instructions, and then by one
C32_ProgramCounterCountsTheNexts ==
    /\ [](\A i \in Parties :
             /\ party[i].pc \in 0..Len(prog)
             /\ party[i].ppc = "wait_start" => party[i].pc = 0
             /\ party[i].res # Panicked("instruction counter overflow"))
    /\ [][\A i \in Parties :
             IF ProcessesNext(i)
             THEN party'[i].pc = party[i].pc + 1
             ELSE party'[i].pc = party[i].pc]_vars

\* a party has processed as many Nexts as the program has instructions and
\* has returned the outputs
C32_Witness ==
    \E i \in Parties :
        /\ party[i].pc = Len(prog)
        /\ Len(prog) = 5
        /\ party[i].res.state = "ok"

\* C33: the replies the synchronizer has gathered from the n parties are, in
\* every gather, all Ok or all Done, and the synchronizer does not panic
\* with 'unexpected messages', whether or not a thread fails
C33_GathersAreUniform ==
    /\ \A g \in 1..Len(hist.gathers) :
          Len(hist.gathers[g].msgs) = n =>
              \/ AllEq(hist.gathers[g].msgs, "Ok")
              \/ AllEq(hist.gathers[g].msgs, "Done")
    /\ sync.spc = "decide" /\ Len(sync.msgs) = n =>
          AllEq(sync.msgs, "Ok") \/ AllEq(sync.msgs, "Done")
    /\ sync.res # Panicked("unexpected messages")

\* the synchronizer has gathered four times n Ok and then n Done, and has returned
C33_Witness ==
    /\ Len(hist.gathers) = 5
    /\ \A g \in 1..4 : AllEq(hist.gathers[g].msgs, "Ok") /\ Len(hist.gathers[g].msgs) = n
    /\ AllEq(hist.gathers[5].msgs, "Done") /\ Len(hist.gathers[5].msgs) = n
    /\ sync.res = RetOk(<<>>)

\* every party has replied to the k-th Next and none has taken the next one
Boundary(k) ==
    \A i \in Parties : Len(hist.replied[i]) = k /\ hist.nexts[i] = k

\* the number of PartyMsgs sent so far on all the peer channels
PeerMsgsSent ==
    LET RECURSIVE SumOver(_)
        SumOver(S) == IF S = {} THEN 0
                      ELSE LET t == CHOOSE t \in S : TRUE
                           IN hist.psent[t[1]][t[2]][t[3]] + SumOver(S \ {t})
    IN SumOver({"Elem", "Com", "Opening"} \X Parties \X Parties)

\* C34: when all n parties have replied to the same Next and none has taken
\* the following one, every peer channel is empty
C34_PeerChannelsEmptyAtBoundary ==
    \A k \in 0..Len(prog) :
        Boundary(k) => \A i, j \in Parties : party_chans[i][j] = <<>>

\* all parties have replied to the Next of the Input, of the Open and of the
\* SOutput with its MAC check, for which elements, commitments and openings
\* were sent on every peer channel
C34_Witness ==
    /\ prog = ProgOpenOutput
    /\ Boundary(3)
    /\ \A i, j \in Parties : hist.psent["Com"][i][j] = 2 /\ hist.psent["Opening"][i][j] = 2
    /\ PeerMsgsSent >= 4 * n * n

\* C35: no peer channel holds more than two messages, so a send on a peer
\* channel of capacity TEST_CAP finds room
C35_PeerChannelsHoldAtMostTwo ==
    \A i, j \in Parties : Len(party_chans[i][j]) <= 2 /\ 2 < TEST_CAP

\* a peer channel between two different parties holds the opening of one
\* log entry and the commitment of the next
C35_Witness ==
    \E i, j \in Parties :
        /\ i # j
        /\ Len(party_chans[i][j]) = 2
        /\ party_chans[i][j][1].kind = "Opening"
        /\ party_chans[i][j][2].kind = "Com"

\* C36: the k-th mac_check a party has completed has returned the verdict
\* that the k-th mac_check of every other party has returned, so all parties
\* leave the loop of a Check at the same log entry
C36_PartiesAgreeOnTheVerdict ==
    \A i, j \in Parties :
        \A k \in 1..Min(Len(hist.verdicts[i]), Len(hist.verdicts[j])) :
            /\ hist.verdicts[i][k] = hist.verdicts[j][k]
            /\ hist.checks[i][k].x = hist.checks[j][k].x

\* every party has returned SumIsNotZero from its first mac_check of a log
\* of two entries, and none has run a second
C36_Witness ==
    /\ hist.tamper.on
    /\ \A i \in Parties :
          /\ hist.verdicts[i] = <<"SumIsNotZero">>
          /\ party[i].ppc \in {"actions", "done"}
          /\ vm[i].res = RetErr("SumIsNotZero")

\* C37: a party that has no peer channel, its own included, replies zero to
\* every Action::Open and Ok to every Action::Check, whatever share and MAC
\* the VM holds: the opened values stored and logged are zero, and the VM
\* never returns a MAC check error
C37_NoChannelOpensZeroAndChecksOk ==
    \A i \in Parties :
        party[i].nchans = 0 =>
            /\ \A k \in 1..Len(reply_chan[i]) :
                  reply_chan[i][k] \in {ReplyFp(0), ReplyCheck("Ok")}
            /\ vm[i].reg.clear[3] \in {None, Some(0)}
            /\ \A k \in 1..Len(vm[i].partial_openings) : vm[i].partial_openings[k][1] = 0
            /\ vm[i].res \notin {RetErr("SumIsNotZero"), RetErr("BadCommitment")}
            /\ party[i].res \notin {RetErr("SumIsNotZero"), RetErr("BadCommitment")}

\* the party has returned the output of the SOutput, a share that is not
\* zero and whose MAC is not the product of the key and the share, after
\* the Open stored zero and the Check of the two log entries returned Ok
C37_Witness ==
    \E i \in Parties :
        /\ party[i].nchans = 0
        /\ party[i].res = RetOk(<<1>>)
        /\ vm[i].reg.clear[3] = Some(0)
        /\ vm[i].reg.secret[0] = Some(AuthShare(1, 0))
        /\ vm[i].alpha_share = 1

\* the sum of the values opened to party 0 in its mac_check: its own
\* alpha_i * x - mac_i and the values of the openings of its peers
OpenedSum ==
    SumSeq([j \in 1..n |-> IF j = 1
                           THEN FpSub(FpMul(party[0].alpha_share, hist.checks[0][1].x),
                                      hist.checks[0][1].share.mac)
                           ELSE Unwrap(party[j - 1].opening).v])

\* C38: a mac_check in which some opening does not verify against its
\* commitment and the opened values do not sum to zero returns BadCommitment;
\* it returns SumIsNotZero only when every opening verifies
C38_BadCommitmentTakesPrecedence ==
    hist.verdicts[0] # <<>> =>
        /\ (BadOpeners # {} /\ OpenedSum # 0) => hist.verdicts[0] = <<"BadCommitment">>
        /\ hist.verdicts[0] = <<"SumIsNotZero">> => (BadOpeners = {} /\ OpenedSum # 0)
        /\ reply_chan[0] = <<ReplyCheck(hist.verdicts[0][1])>>

\* mac_check has returned BadCommitment on an opening that does not verify,
\* the opened values summing to a nonzero element
C38_Witness ==
    /\ hist.verdicts[0] = <<"BadCommitment">>
    /\ BadOpeners # {}
    /\ OpenedSum # 0
    /\ reply_chan[0] = <<ReplyCheck("BadCommitment")>>

\* C39: while a party waits for Start or for the next Next, its VM, which is
\* idle waiting for the next instruction, has not returned
C39_IdleVMKeepsWaiting ==
    \A i \in Parties :
        party[i].ppc \in {"wait_start", "step"} => vm[i].vpc # "done"

\* C40: the step in which a VM takes an Open, a COutput or an SOutput from
\* its instruction channel changes no register and not the log; while the VM
\* is in an Open, a step changes at most clear[dst], and the log by appending
\* the opening, and leaves the secret registers and the other clear
\* registers as they are; while it is in an SOutput no step changes a register
C40_FrameOfOpenAndOutput ==
    [][\A i \in Parties :
          LET v == vm[i]
              w == vm'[i]
          IN /\ (Executes(i) /\ Head(inst_chan[i]).op \in {"Open", "COutput", "SOutput"}) =>
                    /\ w.reg = v.reg
                    /\ w.partial_openings = v.partial_openings
             /\ v.vpc = "open" =>
                    /\ w.reg.secret = v.reg.secret
                    /\ \A r \in DOMAIN v.reg.clear :
                          r # v.hold.r0 => w.reg.clear[r] = v.reg.clear[r]
                    /\ \/ w.partial_openings = v.partial_openings /\ w.reg = v.reg
                       \/ /\ TakesReply(i)
                          /\ w.reg.clear[v.hold.r0] = Some(Head(reply_chan[i]).v)
                          /\ w.partial_openings =
                                 Append(v.partial_openings, <<Head(reply_chan[i]).v, v.hold.share>>)
             /\ v.vpc \in {"sout_open", "sout_check"} => w.reg = v.reg]_vars

\* a VM has completed Open(1, 0), SOutput(0) and COutput(1): clear[1] holds
\* the opened value, the share is still in secret[0], and the two outputs
\* are the share and the opened value
C40_Witness ==
    \E i \in Parties :
        /\ prog = ProgOpenOutput
        /\ vm[i].reg.clear[1] # None
        /\ vm[i].reg.secret[0] # None
        /\ vm[i].reg.clear[2] = None
        /\ vm[i].output = <<Unwrap(vm[i].reg.secret[0]).share, Unwrap(vm[i].reg.clear[1])>>

====
